---- MODULE Spec2Model ----
(***************************************************************************)
(* A model of the storage-event chain of hello-chris-rag-pipeline:         *)
(*   apps/minio-event-bridge/app.py   (POST /webhook, "the bridge")        *)
(*   apps/s3-event-handler/app.py     (POST /,        "the dispatcher")    *)
(* JSON documents are tagged values, request bodies are token sequences    *)
(* (what json.dumps writes and json.loads reads), and every outbound call  *)
(* (the broker POST, the KFP client calls) is a step whose outcome the     *)
(* environment chooses.                                                    *)
(***************************************************************************)
EXTENDS Integers, Sequences, FiniteSets, TLC

(***************************************************************************)
(* JSON values.  A string is a sequence of one-character strings, so that  *)
(* Python's str operations (in, replace, slicing) are computed.            *)
(***************************************************************************)
Null == [t |-> "null"]
Str(s) == [t |-> "str", s |-> s]
Num(n) == [t |-> "num", n |-> n]
Lst(l) == [t |-> "list", l |-> l]
Obj(f) == [t |-> "obj", f |-> f]
EmptyObj == Obj([k \in {} |-> Null])

IsDict(v) == v.t = "obj"
IsList(v) == v.t = "list"
IsStr(v) == v.t = "str"

\* Python truthiness of a JSON value: bool(v).
Truthy(v) ==
    CASE v.t = "null" -> FALSE
      [] v.t = "str" -> Len(v.s) > 0
      [] v.t = "num" -> v.n # 0
      [] v.t = "list" -> Len(v.l) > 0
      [] v.t = "obj" -> DOMAIN v.f # {}

\* dict.get(k, default) on a dict.
Get(d, k, default) == IF k \in DOMAIN d.f THEN d.f[k] ELSE default

\* needle in haystack, for two Python strings given as character sequences.
SubStr(needle, hay) ==
    \E i \in 0..(Len(hay) - Len(needle)) :
        \A j \in 1..Len(needle) : hay[i + j] = needle[j]

\* The spelling of the dictionary keys the handlers probe, as characters.
KeyChars(k) ==
    CASE k = "EventName" -> <<"E","v","e","n","t","N","a","m","e">>
      [] k = "eventName" -> <<"e","v","e","n","t","N","a","m","e">>
      [] k = "Records" -> <<"R","e","c","o","r","d","s">>
      [] k = "Key" -> <<"K","e","y">>
      [] k = "Bucket" -> <<"B","u","c","k","e","t">>
      [] k = "name" -> <<"n","a","m","e">>
      [] k = "s3" -> <<"s","3">>
      [] k = "object" -> <<"o","b","j","e","c","t">>
      [] k = "key" -> <<"k","e","y">>

\* Python's `k in v`: key membership for a dict, element membership for a
\* list, substring for a str, TypeError for anything else.
InOk(v) == v.t \in {"obj", "list", "str"}
In(k, v) ==
    CASE v.t = "obj" -> k \in DOMAIN v.f
      [] v.t = "list" -> \E i \in 1..Len(v.l) : v.l[i] = Str(KeyChars(k))
      [] v.t = "str" -> SubStr(KeyChars(k), v.s)
      [] OTHER -> FALSE

(***************************************************************************)
(* json.dumps and json.loads over token sequences.  A body is the sequence *)
(* of JSON tokens of its text; a text that is no JSON document is a token  *)
(* sequence the grammar rejects.                                           *)
(***************************************************************************)
Tok(p) == [k |-> p]
TStr(s) == [k |-> "s", s |-> s]
TNum(n) == [k |-> "n", n |-> n]
TKey(name) == [k |-> "key", name |-> name]

\* Keys are written in this order (a dict's own insertion order is not modelled).
KeyOrder == <<"specversion", "id", "source", "type", "data", "EventName", "Key",
              "Bucket", "bucket", "key", "Records", "eventName", "s3", "object",
              "name", "size", "foo">>

RECURSIVE Dumps(_), DumpsItems(_), DumpsMembers(_, _)
Dumps(v) ==
    CASE v.t = "null" -> <<Tok("null")>>
      [] v.t = "str" -> <<TStr(v.s)>>
      [] v.t = "num" -> <<TNum(v.n)>>
      [] v.t = "list" -> <<Tok("[")>> \o DumpsItems(v.l) \o <<Tok("]")>>
      [] v.t = "obj" -> <<Tok("{")>> \o DumpsMembers(v.f, 1) \o <<Tok("}")>>
DumpsItems(l) ==
    IF l = <<>> THEN <<>>
    ELSE Dumps(Head(l)) \o
         (IF Len(l) > 1 THEN <<Tok(",")>> ELSE <<>>) \o DumpsItems(Tail(l))
DumpsMembers(f, i) ==
    IF i > Len(KeyOrder) THEN <<>>
    ELSE IF KeyOrder[i] \notin DOMAIN f THEN DumpsMembers(f, i + 1)
    ELSE LET rest == DumpsMembers(f, i + 1)
         IN  <<TKey(KeyOrder[i]), Tok(":")>> \o Dumps(f[KeyOrder[i]]) \o
             (IF rest = <<>> THEN <<>> ELSE <<Tok(",")>> \o rest)

ParseOk(v, rest) == [ok |-> TRUE, v |-> v, rest |-> rest]
ParseFail == [ok |-> FALSE, v |-> Null, rest |-> <<>>]

RECURSIVE ParseValue(_), ParseItems(_, _), ParseItemsTail(_, _),
          ParseMember(_, _), ParseMembersTail(_, _)
ParseValue(ts) ==
    IF ts = <<>> THEN ParseFail
    ELSE LET h == Head(ts)
         IN  CASE h.k = "null" -> ParseOk(Null, Tail(ts))
               [] h.k = "s" -> ParseOk(Str(h.s), Tail(ts))
               [] h.k = "n" -> ParseOk(Num(h.n), Tail(ts))
               [] h.k = "[" -> ParseItems(Tail(ts), <<>>)
               [] h.k = "{" ->
                    IF Tail(ts) # <<>> /\ Head(Tail(ts)).k = "}"
                    THEN ParseOk(EmptyObj, Tail(Tail(ts)))
                    ELSE ParseMember(Tail(ts), EmptyObj.f)
               [] OTHER -> ParseFail
\* After "[": either "]" or a first item.
ParseItems(ts, acc) ==
    IF ts = <<>> THEN ParseFail
    ELSE IF Head(ts).k = "]" THEN ParseOk(Lst(acc), Tail(ts))
    ELSE LET r == ParseValue(ts)
         IN  IF r.ok THEN ParseItemsTail(r.rest, Append(acc, r.v)) ELSE ParseFail
\* After an item: "]" or "," and another item.
ParseItemsTail(ts, acc) ==
    IF ts = <<>> THEN ParseFail
    ELSE IF Head(ts).k = "]" THEN ParseOk(Lst(acc), Tail(ts))
    ELSE IF Head(ts).k = ","
    THEN LET r == ParseValue(Tail(ts))
         IN  IF r.ok THEN ParseItemsTail(r.rest, Append(acc, r.v)) ELSE ParseFail
    ELSE ParseFail
\* A member: key ":" value.  A repeated key keeps the last value.
ParseMember(ts, f) ==
    IF Len(ts) < 3 \/ ts[1].k # "key" \/ ts[2].k # ":" THEN ParseFail
    ELSE LET r == ParseValue(SubSeq(ts, 3, Len(ts)))
         IN  IF r.ok THEN ParseMembersTail(r.rest, (ts[1].name :> r.v) @@ f)
             ELSE ParseFail
ParseMembersTail(ts, f) ==
    IF ts = <<>> THEN ParseFail
    ELSE IF Head(ts).k = "}" THEN ParseOk(Obj(f), Tail(ts))
    ELSE IF Head(ts).k = "," THEN ParseMember(Tail(ts), f)
    ELSE ParseFail

\* json.loads: the document, or JSONDecodeError.
LoadsOk(ts) == LET r == ParseValue(ts) IN r.ok /\ r.rest = <<>>
Loads(ts) == ParseValue(ts).v

(***************************************************************************)
(* Character sequences of the string constants of the two programs and of  *)
(* the payloads fed to them.                                               *)
(***************************************************************************)
UnknownBucket == <<"u","n","k","n","o","w","n","_","b","u","c","k","e","t">>
UnknownKey == <<"u","n","k","n","o","w","n","_","k","e","y">>
\* The default event name of the written specification.
ObjectCreatedUnknown == <<"O","b","j","e","c","t","C","r","e","a","t","e","d",":","U","n","k","n","o","w","n">>
DefaultEventName == <<"s","3",":","O","b","j","e","c","t","C","r","e","a","t","e","d",":","P","u","t">>
UnknownEventType == <<"i","o",".","m","i","n","i","o",".","o","b","j","e","c","t",".","u","n","k","n","o","w","n">>

PutEvent == DefaultEventName
RemovedEvent == <<"s","3",":","O","b","j","e","c","t","R","e","m","o","v","e","d",":","D","e","l","e","t","e">>
PdfInbox == <<"p","d","f","-","i","n","b","o","x">>
RenameBucket == <<"r","e","n","a","m","e","d">>
Q1Pdf == <<"r","/","q","1",".","p","d","f">>
NotesTxt == <<"n",".","t","x","t">>
Bar == <<"b","a","r">>

Evt123 == <<"e","v","t","-","1","2","3">>
Evt456 == <<"e","v","t","-","4","5","6">>
NotAvailable == <<"N","/","A">>
SpecVersion == <<"1",".","0">>

(***************************************************************************)
(* HTTP requests: the Content-Type header ("none" when absent), the ce-*   *)
(* headers (lower-cased names), and the body's tokens (<<>>: no body).     *)
(***************************************************************************)
CtCloudEvents == "application/cloudevents+json"
CtJson == "application/json"
CtText == "text/plain"
CtNone == "none"

NoHeaders == [h \in {} |-> <<>>]
Request(ct, ce, body) == [ct |-> ct, ce |-> ce, body |-> body]
NoRequest == Request(CtNone, NoHeaders, <<>>)

\* werkzeug's Request.is_json: application/json or application/*+json.
IsJsonMime(ct) == ct \in {CtJson, CtCloudEvents}

\* dict.get on the headers: the value, or <<>> (falsy, like None) when absent.
Header(req, name) == IF name \in DOMAIN req.ce THEN req.ce[name] ELSE <<>>

(***************************************************************************)
(* The dispatcher, apps/s3-event-handler/app.py: handle_s3_event.          *)
(***************************************************************************)

\* A step of the handler ends in one of: a value ("ok"), a raised exception
\* ("raise"), or an early return with a status ("return").
Raise(exc) == [out |-> "raise", exc |-> exc]
Return(status, keys) == [out |-> "return", status |-> status, keys |-> keys]

\* A plausible change: the ce-specversion header is looked at before the
\* content type.
ParseEventDataBinaryFirst(req) ==
    IF Header(req, "ce-specversion") # <<>> /\ req.body # <<>>
    THEN IF ~LoadsOk(req.body) THEN Raise("JSONDecodeError")
         ELSE [out |-> "ok", payload |-> Null, data |-> Loads(req.body)]
    ELSE IF req.ct = CtCloudEvents
    THEN IF ~LoadsOk(req.body) THEN Raise("BadRequest")
         ELSE IF ~IsDict(Loads(req.body)) THEN Raise("AttributeError")
         ELSE [out |-> "ok", payload |-> Loads(req.body),
               data |-> Get(Loads(req.body), "data", Null)]
    ELSE IF IsJsonMime(req.ct)
    THEN IF ~LoadsOk(req.body) THEN Raise("BadRequest")
         ELSE [out |-> "ok", payload |-> Null, data |-> Loads(req.body)]
    ELSE IF req.body # <<>>
    THEN IF ~LoadsOk(req.body) THEN Raise("JSONDecodeError")
         ELSE [out |-> "ok", payload |-> Null, data |-> Loads(req.body)]
    ELSE Return(400, {"error", "request_id"})

\* Lines 204-222: which part of the request is the event data.  Content types
\* are compared whole: none of the modelled ones contains another.
ParseEventData(req) ==
    IF req.ct = CtCloudEvents
    THEN IF ~LoadsOk(req.body) THEN Raise("BadRequest")
         ELSE IF ~IsDict(Loads(req.body)) THEN Raise("AttributeError")
         ELSE [out |-> "ok", payload |-> Loads(req.body),
               data |-> Get(Loads(req.body), "data", Null)]
    ELSE IF Header(req, "ce-specversion") # <<>> /\ req.body # <<>>
    THEN IF ~LoadsOk(req.body) THEN Raise("JSONDecodeError")
         ELSE [out |-> "ok", payload |-> Null, data |-> Loads(req.body)]
    ELSE IF IsJsonMime(req.ct)
    THEN IF ~LoadsOk(req.body) THEN Raise("BadRequest")
         ELSE [out |-> "ok", payload |-> Null, data |-> Loads(req.body)]
    ELSE IF req.body # <<>>
    THEN IF ~LoadsOk(req.body) THEN Raise("JSONDecodeError")
         ELSE [out |-> "ok", payload |-> Null, data |-> Loads(req.body)]
    ELSE Return(400, {"error", "request_id"})

\* Lines 204-226: the event data, which must be a non-empty dict.
DecodeEvent(req) ==
    LET d == ParseEventData(req)
    IN  IF d.out = "ok" /\ (~Truthy(d.data) \/ ~IsDict(d.data))
        THEN Return(400, {"error", "request_id"})
        ELSE d

\* A plausible change: the record's own event name goes before the top-level one.
ExtractFromRecordOwnName(record, eventName0) ==
    IF ~IsDict(record) THEN Raise("AttributeError")
    ELSE LET eventName == IF In("eventName", record) /\ Truthy(record.f["eventName"])
                          THEN record.f["eventName"] ELSE eventName0
             s3_info == Get(record, "s3", EmptyObj)
             object_info == IF IsDict(s3_info) THEN Get(s3_info, "object", EmptyObj) ELSE Null
             bucket_info == IF IsDict(s3_info) THEN Get(s3_info, "bucket", EmptyObj) ELSE Null
         IN  [out |-> "ok",
              eventName |-> eventName,
              object_key |-> IF IsDict(object_info)
                             THEN Get(object_info, "key", Str(UnknownKey))
                             ELSE Str(UnknownKey),
              bucket_name |-> IF IsDict(bucket_info)
                              THEN Get(bucket_info, "name", Str(UnknownBucket))
                              ELSE Str(UnknownBucket)]

\* Lines 230-254: bucket, key and event name of the event data (a non-empty dict).
ExtractFromRecord(record, eventName0) ==
    IF ~Truthy(eventName0) /\ ~InOk(record) THEN Raise("TypeError")
    ELSE IF ~IsDict(record) THEN Raise("AttributeError")
    ELSE LET eventName == IF ~Truthy(eventName0) /\ In("eventName", record)
                          THEN record.f["eventName"] ELSE eventName0
             s3_info == Get(record, "s3", EmptyObj)
             object_info == IF IsDict(s3_info) THEN Get(s3_info, "object", EmptyObj) ELSE Null
             bucket_info == IF IsDict(s3_info) THEN Get(s3_info, "bucket", EmptyObj) ELSE Null
         IN  [out |-> "ok",
              eventName |-> eventName,
              object_key |-> IF IsDict(object_info)
                             THEN Get(object_info, "key", Str(UnknownKey))
                             ELSE Str(UnknownKey),
              bucket_name |-> IF IsDict(bucket_info)
                              THEN Get(bucket_info, "name", Str(UnknownBucket))
                              ELSE Str(UnknownBucket)]

ExtractTopLevel(data, eventName0) ==
    IF ~In("Bucket", data)
    THEN [out |-> "ok", eventName |-> eventName0, object_key |-> data.f["Key"],
          bucket_name |-> Str(UnknownBucket)]
    ELSE LET b == data.f["Bucket"]
         IN  IF ~InOk(b) THEN Raise("TypeError")
             ELSE IF ~In("name", b)
             THEN [out |-> "ok", eventName |-> eventName0,
                   object_key |-> data.f["Key"], bucket_name |-> Str(UnknownBucket)]
             ELSE IF ~IsDict(b) THEN Raise("TypeError")
             ELSE [out |-> "ok", eventName |-> eventName0,
                   object_key |-> data.f["Key"], bucket_name |-> b.f["name"]]

\* A plausible change: a payload of no known shape is an error.
ExtractS3InfoStrict(data) ==
    IF In("Records", data) /\ IsList(data.f["Records"]) /\ Len(data.f["Records"].l) > 0
    THEN ExtractFromRecord(data.f["Records"].l[1], Get(data, "EventName", Null))
    ELSE IF In("Key", data) /\ In("Bucket", data)
    THEN ExtractTopLevel(data, Get(data, "EventName", Null))
    ELSE Raise("ValueError")

\* A plausible change: the lower-case simplified form is read as well.
ExtractS3InfoLowerCase(data) ==
    LET eventName0 == Get(data, "EventName", Null)
        e == IF In("Records", data) /\ IsList(data.f["Records"])
                /\ Len(data.f["Records"].l) > 0
             THEN ExtractFromRecord(data.f["Records"].l[1], eventName0)
             ELSE IF In("Key", data) THEN ExtractTopLevel(data, eventName0)
             ELSE [out |-> "ok", eventName |-> eventName0,
                   object_key |-> Get(data, "key", Str(UnknownKey)),
                   bucket_name |-> Get(data, "bucket", Str(UnknownBucket))]
    IN  IF e.out = "ok" /\ ~Truthy(e.eventName)
        THEN [e EXCEPT !.eventName = Str(DefaultEventName)]
        ELSE e

\* A plausible slip: the top-level Key is looked for first, as the bridge does
\* for its subject.
ExtractS3InfoKeyFirst(data) ==
    LET eventName0 == Get(data, "EventName", Null)
        e == IF In("Key", data) THEN ExtractTopLevel(data, eventName0)
             ELSE IF In("Records", data) /\ IsList(data.f["Records"])
                /\ Len(data.f["Records"].l) > 0
             THEN ExtractFromRecord(data.f["Records"].l[1], eventName0)
             ELSE [out |-> "ok", eventName |-> eventName0,
                   object_key |-> Str(UnknownKey), bucket_name |-> Str(UnknownBucket)]
    IN  IF e.out = "ok" /\ ~Truthy(e.eventName)
        THEN [e EXCEPT !.eventName = Str(DefaultEventName)]
        ELSE e

ExtractS3Info(data) ==
    LET eventName0 == Get(data, "EventName", Null)
        e == IF In("Records", data) /\ IsList(data.f["Records"])
                /\ Len(data.f["Records"].l) > 0
             THEN ExtractFromRecord(data.f["Records"].l[1], eventName0)
             ELSE IF In("Key", data) THEN ExtractTopLevel(data, eventName0)
             ELSE [out |-> "ok", eventName |-> eventName0,
                   object_key |-> Str(UnknownKey), bucket_name |-> Str(UnknownBucket)]
    IN  IF e.out = "ok" /\ ~Truthy(e.eventName)
        THEN [e EXCEPT !.eventName = Str(DefaultEventName)]
        ELSE e

\* A plausible slip: the catch-all clause answers as if nothing had failed.
ExceptResponseSwallowing(exc) ==
    IF exc = "JSONDecodeError"
    THEN [status |-> 500, json |-> FALSE, keys |-> {}]
    ELSE [status |-> 200, json |-> TRUE, keys |-> {"status", "message", "request_id"}]

\* Lines 349-354: the except clauses around the handler's body.  The handler
\* of JSONDecodeError formats raw_body_sample, a name handle_s3_event never
\* binds (it is local to before_request_logging_extended): NameError leaves the
\* view and Flask answers its own 500 page, which is no JSON.
ErrorBody == {"status", "message", "request_id"}
ExceptResponse(exc) ==
    IF exc = "JSONDecodeError"
    THEN [status |-> 500, json |-> FALSE, keys |-> {}]
    ELSE [status |-> 500, json |-> TRUE, keys |-> ErrorBody]

\* Lines 332-336: the CloudEvent id of the delivery (ce-id, else the
\* structured payload's id), None when there is none.
CloudEventIdReceived(req, payload) ==
    IF Header(req, "ce-id") # <<>> THEN Str(Header(req, "ce-id"))
    ELSE IF IsDict(payload) THEN Get(payload, "id", Null)
    ELSE Null

\* str.replace(old, new) for one-character old and new.
RECURSIVE Replace(_, _, _)
Replace(s, old, new) ==
    IF s = <<>> THEN <<>>
    ELSE <<IF Head(s) = old THEN new ELSE Head(s)>> \o Replace(Tail(s), old, new)

\* s[:n]
Prefix(s, n) == SubSeq(s, 1, IF Len(s) < n THEN Len(s) ELSE n)

\* uuid.uuid4() as text: the n-th value drawn differs from every other one,
\* here within its first eight characters.
Digit(n) == <<"0","1","2","3","4","5","6","7","8","9">>[(n % 10) + 1]
Uuid4(n) == <<"0","0","0","0","0","0", Digit(n \div 10), Digit(n), "-", "4">>

PdfEventPrefix == <<"P","D","F"," ","E","v","e","n","t"," ","-"," ">>

\* A plausible change: the run is named after the object alone.
RunNameOfKey(object_key, request_id) == PdfEventPrefix \o Replace(object_key, "/", "-")

\* Line 317: f"PDF Event - {object_key.replace('/', '-')} - {request_id[:8]}"
RunName(object_key, request_id) ==
    <<"P","D","F"," ","E","v","e","n","t"," ","-"," ">>
        \o Replace(object_key, "/", "-") \o <<" ","-"," ">> \o Prefix(request_id, 8)

(***************************************************************************)
(* The mock ticketing API, app.py: texts and pure functions.               *)
(***************************************************************************)
UpperCase == <<"A","B","C","D","E","F","G","H","I","J","K","L","M","N","O","P","Q","R","S","T","U","V","W","X","Y","Z">>
LowerCase == <<"a","b","c","d","e","f","g","h","i","j","k","l","m","n","o","p","q","r","s","t","u","v","w","x","y","z">>
\* str.lower, str.upper and str.capitalize, character by character.
Lower(c) ==
    IF \E i \in DOMAIN UpperCase : UpperCase[i] = c
    THEN LowerCase[CHOOSE i \in DOMAIN UpperCase : UpperCase[i] = c] ELSE c
Upper(c) ==
    IF \E i \in DOMAIN LowerCase : LowerCase[i] = c
    THEN UpperCase[CHOOSE i \in DOMAIN LowerCase : LowerCase[i] = c] ELSE c
StrLower(s) == [i \in 1..Len(s) |-> Lower(s[i])]
StrUpper(s) == [i \in 1..Len(s) |-> Upper(s[i])]
Capitalize(s) == IF s = <<>> THEN <<>> ELSE <<Upper(Head(s))>> \o StrLower(Tail(s))

\* str.isdigit, int(str), str(int), str.zfill and str.replace(old, "").
DecimalDigits == <<"0","1","2","3","4","5","6","7","8","9">>
IsDigit(s) ==
    s # <<>> /\ \A i \in DOMAIN s : \E d \in DOMAIN DecimalDigits : DecimalDigits[d] = s[i]
RECURSIVE IntOf(_)
IntOf(s) ==
    IF s = <<>> THEN 0
    ELSE IntOf(SubSeq(s, 1, Len(s) - 1)) * 10
         + (CHOOSE d \in DOMAIN DecimalDigits : DecimalDigits[d] = s[Len(s)]) - 1
RECURSIVE StrOf(_)
StrOf(n) ==
    IF n < 10 THEN <<DecimalDigits[n + 1]>>
    ELSE StrOf(n \div 10) \o <<DecimalDigits[(n % 10) + 1]>>
RECURSIVE ZFill(_, _)
ZFill(s, width) == IF Len(s) >= width THEN s ELSE ZFill(<<"0">> \o s, width)
RECURSIVE Without(_, _)
Without(s, old) ==
    IF Len(s) < Len(old) \/ old = <<>> THEN s
    ELSE IF SubSeq(s, 1, Len(old)) = old THEN Without(SubSeq(s, Len(old) + 1, Len(s)), old)
    ELSE <<Head(s)>> \o Without(Tail(s), old)

INC == <<"I","N","C">>
REQ == <<"R","E","Q">>
FirstINC == <<"I","N","C","0","0","1","0","0","0","1">>
FirstREQ == <<"R","E","Q","0","0","2","0","0","0","1">>
DefaultWidth == 7
MaxOf(nums) == IF nums = {} THEN 0 ELSE CHOOSE n \in nums : \A m \in nums : m <= n
\* The digits left of each key once the prefix is taken out (line 173).
NumParts(prefix, db_keys) == [i \in DOMAIN db_keys |-> Without(db_keys[i], prefix)]
MaxNum(prefix, db_keys) ==
    MaxOf({IntOf(NumParts(prefix, db_keys)[i]) :
              i \in {j \in DOMAIN db_keys : IsDigit(NumParts(prefix, db_keys)[j])}})

\* A plausible slip: the highest number in use is given out again.
get_next_number_no_increment(prefix, db_keys) ==
    IF db_keys = <<>> THEN (IF prefix = INC THEN FirstINC ELSE FirstREQ)
    ELSE prefix \o ZFill(StrOf(MaxNum(prefix, db_keys)),
                         Len(NumParts(prefix, db_keys)[Len(db_keys)]))

\* Lines 160-180: db_keys are the keys in the dict's order; num_part_str is
\* what the loop's last key left in it.
get_next_number(prefix, db_keys) ==
    IF db_keys = <<>>
    THEN (IF prefix = INC THEN FirstINC
          ELSE IF prefix = REQ THEN FirstREQ
          ELSE prefix \o ZFill(StrOf(1), DefaultWidth))
    ELSE \* max_num and num_part_str as the loop leaves them
         prefix \o ZFill(StrOf(MaxNum(prefix, db_keys) + 1),
                         IF MaxNum(prefix, db_keys) > 0
                         THEN Len(NumParts(prefix, db_keys)[Len(db_keys)])
                         ELSE DefaultWidth)

Closed == <<"C","l","o","s","e","d">>
Resolved == <<"R","e","s","o","l","v","e","d">>
New == <<"N","e","w">>
ClosedStates == {StrLower(Closed), StrLower(Resolved)}
\* The clock's readings: one text for the past ones, one for now.
PastIso == <<"p","a","s","t">>
NowIso == <<"n","o","w">>
ApiUserCreate == <<"a","p","i","_","u","s","e","r","_","c","r","e","a","t","e">>
ApiUserUpdate == <<"a","p","i","_","u","s","e","r","_","u","p","d","a","t","e">>
ApiUserResolve == <<"a","p","i","_","u","s","e","r","_","r","e","s","o","l","v","e">>
SolvedWorkaround == <<"S","o","l","v","e","d"," ","(","W","o","r","k","a","r","o","u","n","d",")">>
Solved == <<"S","o","l","v","e","d">>
UpdatedToClosed == <<"T","i","c","k","e","t"," ","u","p","d","a","t","e","d">>
ResolutionFields == {"closed_at", "resolution_notes", "resolution_code", "resolved_by"}
Immutable == {"number", "opened_at", "caller_id"}

\* Lines 13-109: the five incidents the service starts with, in the dict's
\* order, each under its number.  (Of every incident the fields that the
\* handlers read or write are kept, and each text is cut to a word.)
InitialIncident(number, state, by) ==
    [key |-> number,
     inc |-> Obj([number |-> Str(number), state |-> Str(state),
                  short_description |-> Str(<<"E","m","a","i","l">>), opened_at |-> Str(PastIso),
                  caller_id |-> Str(<<"a","b","e","l">>), description |-> Str(<<"U","s","e","r","s">>),
                  resolution_code |-> Str(Solved), resolution_notes |-> Str(<<"T","h","e">>),
                  closed_at |-> Str(PastIso), updated_on |-> Str(PastIso),
                  updated_by |-> Str(by), resolved_by |-> Str(by)])]
Inc1001 == <<"I","N","C","0","0","1","0","0","1">>
Inc1002 == <<"I","N","C","0","0","1","0","0","2">>
Inc1003 == <<"I","N","C","0","0","1","0","0","3">>
Inc1004 == <<"I","N","C","0","0","1","0","0","4">>
Inc1005 == <<"I","N","C","0","0","1","0","0","5">>
InitialIncidents ==
    << InitialIncident(Inc1001, Closed, <<"n","e","t","w","o","r","k",".","a","d","m","i","n">>),
       InitialIncident(Inc1002, Resolved, <<"s","a","r","a","h",".","j","o","n","e","s">>),
       InitialIncident(Inc1003, Closed, <<"m","a","r","k",".","c","h","e","n">>),
       InitialIncident(Inc1004, Closed, <<"o","p","s",".","a","d","m","i","n">>),
       InitialIncident(Inc1005, Closed, <<"t","e","c","h",".","s","u","p","p","o","r","t">>) >>

\* dict operations on incidents_db: its keys in order, a lookup, an assignment.
KeysOf(db) == [i \in DOMAIN db |-> db[i].key]
HasKey(db, key) == \E i \in DOMAIN db : db[i].key = key
IncidentAt(db, key) == db[CHOOSE i \in DOMAIN db : db[i].key = key].inc
SetItem(db, key, incident) ==
    IF HasKey(db, key)
    THEN [i \in DOMAIN db |-> IF db[i].key = key THEN [key |-> key, inc |-> incident] ELSE db[i]]
    ELSE Append(db, [key |-> key, inc |-> incident])

\* Line 256: is_closed_on_creation; .lower() raises on a state that is no str.
ClosedOnCreationRaises(json) ==
    In("resolution_notes", json) /\ ~IsStr(Get(json, "state", Str(<<>>)))
IsClosedOnCreation(json) ==
    /\ In("resolution_notes", json)
    /\ StrLower(Get(json, "state", Str(<<>>)).s) \in ClosedStates

\* Lines 258-281: new_incident.  (assignment_group, priority, category,
\* subcategory and cmdb_ci, which no handler reads again, are left out.)
NewIncident(json, number) ==
    Obj([k \in {"number", "state", "short_description", "opened_at", "caller_id",
                "description", "updated_on", "updated_by"}
               \cup (IF IsClosedOnCreation(json) THEN ResolutionFields ELSE {}) |->
         CASE k = "number" -> Str(number)
           [] k = "state" ->
                IF IsClosedOnCreation(json)
                THEN (IF Truthy(Get(json, "state", Null))
                      THEN Str(Capitalize(json.f["state"].s)) ELSE Str(Closed))
                ELSE Get(json, "state", Str(New))
           [] k = "short_description" -> json.f["short_description"]
           [] k = "caller_id" -> json.f["caller_id"]
           [] k = "description" -> json.f["description"]
           [] k \in {"opened_at", "updated_on", "closed_at"} -> Str(NowIso)
           [] k = "updated_by" -> Str(ApiUserCreate)
           [] k = "resolution_notes" -> json.f["resolution_notes"]
           [] k = "resolution_code" -> Get(json, "resolution_code", Str(SolvedWorkaround))
           [] k = "resolved_by" -> Get(json, "resolved_by", Str(ApiUserResolve))])

\* Lines 298-303: the fields of the request written over the incident's.
UpdatedFields(incident, json) ==
    Obj([k \in DOMAIN incident.f \cup (DOMAIN json.f \ Immutable)
               \cup {"updated_on", "updated_by"} |->
         CASE k = "updated_on" -> Str(NowIso)
           [] k = "updated_by" -> Str(ApiUserUpdate)
           [] k \in DOMAIN json.f \ Immutable -> json.f[k]
           [] OTHER -> incident.f[k]])
\* Lines 307-314: a resolution field that is absent or empty is filled in.
Unset(incident, k) == k \notin DOMAIN incident.f \/ ~Truthy(incident.f[k])
ResolutionFilled(incident, json) ==
    Obj([k \in DOMAIN incident.f \cup ResolutionFields |->
         IF k \in ResolutionFields /\ Unset(incident, k)
         THEN CASE k = "closed_at" -> Str(NowIso)
                [] k = "resolution_notes" -> Get(json, k, Str(UpdatedToClosed))
                [] k = "resolution_code" -> Get(json, k, Str(Solved))
                [] k = "resolved_by" -> Get(json, k, Str(ApiUserResolve))
         ELSE incident.f[k]])
\* Lines 298-314: the incident as update_incident leaves it; .lower() on a
\* state that is no str raises after the fields have been written.
UpdatedIncident(incident, json) ==
    LET written == UpdatedFields(incident, json)
        state == Get(written, "state", Str(<<>>))
    IN  IF ~IsStr(state) THEN [out |-> "raise", incident |-> written]
        ELSE [out |-> "ok",
              incident |-> IF StrLower(state.s) \in ClosedStates
                           THEN ResolutionFilled(written, json) ELSE written]

(***************************************************************************)
(* State.                                                                  *)
(***************************************************************************)
NWorkers == 2
MaxDeliveries == 2
Workers == 1..NWorkers
NThreads == 2
MaxTicketRequests == 3
Threads == 1..NThreads

VARIABLES
    KFP_ENDPOINT,    \* the dispatcher's configuration: is the endpoint set
    uuidCtr,         \* how many uuid4 values have been drawn
    delivered,       \* deliveries made to the dispatcher so far
    dPc,             \* per worker: where its request stands
    dReq,            \* per worker: the request
    dRid,            \* per worker: g.request_id
    dLoc,            \* per worker: the handler's locals, and what was on record at receipt
    dCalls,          \* per worker: KFP calls made for the request
    dResp,           \* per worker: the response sent
    kfpExperiment,   \* KFP: the experiment exists
    kfpRuns,         \* KFP: the runs submitted, in order
    bPc,             \* bridge: where its request stands
    bReq,            \* bridge: the request
    bRid,            \* bridge: g.request_id
    bEvent,          \* bridge: the CloudEvent as sent (headers, body)
    bPlan,           \* broker: its answers to the coming POSTs, in order
    bAttempts,       \* bridge: POSTs made to the broker for the request
    bServed,         \* bridge: requests received so far
    bResp,           \* bridge: the response sent
    incidents_db,    \* ticketing API: the incidents, in the dict's order
    tServed,         \* ticketing API: requests received so far
    tPc,             \* per thread: where its request stands
    tReq,            \* per thread: request.json
    tLoc,            \* per thread: the handler's locals
    tResp            \* per thread: the response sent

dvars == <<KFP_ENDPOINT, uuidCtr, delivered, dPc, dReq, dRid, dLoc, dCalls, dResp,
           kfpExperiment, kfpRuns>>
dvarsButUuid == <<KFP_ENDPOINT, delivered, dPc, dReq, dRid, dLoc, dCalls, dResp,
                  kfpExperiment, kfpRuns>>
bvars == <<bPc, bReq, bRid, bEvent, bPlan, bAttempts, bServed, bResp>>
tvars == <<incidents_db, tServed, tPc, tReq, tLoc, tResp>>
vars == <<dvars, bvars, tvars>>

NoLoc == [bucket_name |-> Null, object_key |-> Null, eventName |-> Null,
          payload |-> Null, pipeline_id |-> "unset", experiment |-> "unset",
          run_result |-> "unset", runs_at_receipt |-> 0]
NoCalls == [get_pipeline_id |-> 0, get_experiment |-> 0, create_experiment |-> 0,
            run_pipeline |-> 0]
NoResp == [status |-> 0, json |-> FALSE, keys |-> {}]
NoTLoc == [size |-> 0, number |-> <<>>, incident |-> Null]

Init ==
    /\ KFP_ENDPOINT \in BOOLEAN
    /\ uuidCtr = 0
    /\ delivered = 0
    /\ dPc = [w \in Workers |-> "idle"]
    /\ dReq = [w \in Workers |-> NoRequest]
    /\ dRid = [w \in Workers |-> <<>>]
    /\ dLoc = [w \in Workers |-> NoLoc]
    /\ dCalls = [w \in Workers |-> NoCalls]
    /\ dResp = [w \in Workers |-> NoResp]
    /\ kfpExperiment \in BOOLEAN
    /\ kfpRuns = <<>>
    /\ bPc = "idle"
    /\ bReq = NoRequest
    /\ bRid = <<>>
    /\ bEvent = NoRequest
    /\ bPlan = <<>>
    /\ bAttempts = 0
    /\ bServed = 0
    /\ bResp = NoResp
    /\ incidents_db = InitialIncidents
    /\ tServed = 0
    /\ tPc = [t \in Threads |-> "idle"]
    /\ tReq = [t \in Threads |-> Null]
    /\ tLoc = [t \in Threads |-> NoTLoc]
    /\ tResp = [t \in Threads |-> NoResp]

\* Lines 70-72: a request arrives and before_request draws its request id.
DReceive(w, req) ==
    /\ dPc[w] = "idle"
    /\ delivered < MaxDeliveries
    /\ delivered' = delivered + 1
    /\ dPc' = [dPc EXCEPT ![w] = "handling"]
    /\ dReq' = [dReq EXCEPT ![w] = req]
    /\ dRid' = [dRid EXCEPT ![w] = Uuid4(uuidCtr)]
    /\ uuidCtr' = uuidCtr + 1
    /\ dLoc' = [dLoc EXCEPT ![w] = [NoLoc EXCEPT !.runs_at_receipt = Len(kfpRuns)]]
    /\ dCalls' = [dCalls EXCEPT ![w] = NoCalls]
    /\ dResp' = [dResp EXCEPT ![w] = NoResp]
    /\ UNCHANGED <<KFP_ENDPOINT, kfpExperiment, kfpRuns, bvars, tvars>>

DRespond(w, resp) ==
    /\ dPc' = [dPc EXCEPT ![w] = "done"]
    /\ dResp' = [dResp EXCEPT ![w] = resp]

\* A plausible change: the event name is taken from the ce-type header when
\* the event data names none.
PreludeTypeHeader(req) ==
    LET d == DecodeEvent(req)
    IN  IF d.out # "ok" THEN d
        ELSE LET e == ExtractS3Info(d.data)
             IN  IF e.out # "ok" THEN e
                 ELSE [e EXCEPT !.out = "ok",
                                !.eventName =
                                    IF @ = Str(DefaultEventName) /\ Header(req, "ce-type") # <<>>
                                    THEN Str(Header(req, "ce-type")) ELSE @]
                      @@ [payload |-> d.payload]

\* The filter that lines 263-268 hold as comments: only the creation of a
\* PDF goes on to the pipeline.
DotPdf == <<".","p","d","f">>
CreationEvents == {<<"O","b","j","e","c","t","C","r","e","a","t","e","d",":","P","u","t">>,
                   <<"O","b","j","e","c","t","C","r","e","a","t","e","d",":","C","o","m","p","l","e","t","e","M","u","l","t","i","p","a","r","t","U","p","l","o","a","d">>}
EndsWith(s, suffix) ==
    Len(s) >= Len(suffix) /\ SubSeq(s, Len(s) - Len(suffix) + 1, Len(s)) = suffix
ProceedsForCreatedPdf(eventName, object_key) ==
    /\ IsStr(eventName) /\ \E c \in CreationEvents : SubStr(c, eventName.s)
    /\ IsStr(object_key) /\ object_key.s # UnknownKey
    /\ EndsWith(StrLower(object_key.s), DotPdf)

\* Lines 258-271: is_pdf is computed and logged only; with the filter
\* commented out every extracted event proceeds to the KFP logic.
Proceeds(eventName, object_key) == TRUE

\* Lines 191-282 up to the first KFP call: decode, extract, configuration.
Prelude(req) ==
    LET d == DecodeEvent(req)
    IN  IF d.out # "ok" THEN d
        ELSE LET e == ExtractS3Info(d.data)
             IN  IF e.out # "ok" THEN e
                 ELSE IF ~Proceeds(e.eventName, e.object_key)
                 THEN Return(200, {"message", "request_id"})
                 ELSE [e EXCEPT !.out = "ok"] @@ [payload |-> d.payload]

\* A plausible slip: only the None result is checked, not the failed lookup.
PipelineFoundUnlessNone(pipeline_id) == pipeline_id # "none"

\* Line 292: `if not pipeline_id` (None after a lookup that raised).
PipelineFound(pipeline_id) == pipeline_id = "id"

\* Lines 191-295: the handler up to the pipeline lookup.  get_kfp_client
\* gives a client or None; get_pipeline_id gives an id, None, or raises (and
\* the except clause leaves pipeline_id None).
DHandle(w) ==
    /\ dPc[w] = "handling"
    /\ \E pre \in {Prelude(dReq[w])} :
       LET loc == [bucket_name |-> pre.bucket_name, object_key |-> pre.object_key,
                   eventName |-> pre.eventName, payload |-> pre.payload,
                   pipeline_id |-> "unset", experiment |-> "unset",
                   run_result |-> "unset",
                   runs_at_receipt |-> dLoc[w].runs_at_receipt]
       IN  CASE pre.out = "return" ->
                  /\ DRespond(w, [status |-> pre.status, json |-> TRUE, keys |-> pre.keys])
                  /\ UNCHANGED <<dLoc, dCalls>>
             [] pre.out = "raise" ->
                  /\ DRespond(w, ExceptResponse(pre.exc))
                  /\ UNCHANGED <<dLoc, dCalls>>
             [] OTHER ->
                  IF ~KFP_ENDPOINT
                  THEN /\ DRespond(w, [status |-> 500, json |-> TRUE,
                                       keys |-> {"error", "request_id"}])
                       /\ dLoc' = [dLoc EXCEPT ![w] = loc]
                       /\ UNCHANGED dCalls
                  ELSE \E client \in {"client", "none"},
                          pipeline_id \in {"id", "none", "raise"} :
                         IF client = "none"
                         THEN /\ DRespond(w, [status |-> 500, json |-> TRUE,
                                              keys |-> {"error", "request_id"}])
                              /\ dLoc' = [dLoc EXCEPT ![w] = loc]
                              /\ UNCHANGED dCalls
                         ELSE /\ dCalls' = [dCalls EXCEPT ![w].get_pipeline_id = @ + 1]
                              /\ dLoc' = [dLoc EXCEPT ![w] =
                                            [loc EXCEPT !.pipeline_id = pipeline_id]]
                              /\ IF ~PipelineFound(pipeline_id)
                                 THEN DRespond(w, [status |-> 404, json |-> TRUE,
                                                   keys |-> {"error", "request_id"}])
                                 ELSE /\ dPc' = [dPc EXCEPT ![w] = "experiment"]
                                      /\ UNCHANGED dResp
    /\ UNCHANGED <<KFP_ENDPOINT, uuidCtr, delivered, dReq, dRid, kfpExperiment, kfpRuns, bvars, tvars>>

\* Lines 297-302: get_experiment returns the experiment, or raises when there
\* is none or the call fails.
DGetExperiment(w) ==
    /\ dPc[w] = "experiment"
    /\ dCalls' = [dCalls EXCEPT ![w].get_experiment = @ + 1]
    /\ \E failed \in BOOLEAN :
         LET found == kfpExperiment /\ ~failed
         IN  /\ dPc' = [dPc EXCEPT ![w] = IF found THEN "submit" ELSE "create"]
             /\ dLoc' = [dLoc EXCEPT ![w].experiment =
                            IF found THEN "found"
                            ELSE IF kfpExperiment THEN "unreachable" ELSE "absent"]
    /\ UNCHANGED <<KFP_ENDPOINT, uuidCtr, delivered, dReq, dRid, dResp,
                   kfpExperiment, kfpRuns, bvars, tvars>>

\* Lines 303-308: create_experiment returns an experiment or raises; it
\* raises when an experiment of that name exists already (the names are
\* unique on the server), and it may raise for any other reason.
DCreateExperiment(w) ==
    /\ dPc[w] = "create"
    /\ dCalls' = [dCalls EXCEPT ![w].create_experiment = @ + 1]
    /\ \E raised \in (IF kfpExperiment THEN {TRUE} ELSE BOOLEAN) :
         IF raised
         THEN /\ DRespond(w, [status |-> 500, json |-> TRUE, keys |-> {"error", "request_id"}])
              /\ dLoc' = [dLoc EXCEPT ![w].experiment =
                             IF ~kfpExperiment THEN "failed"
                             ELSE IF @ = "absent" THEN "raced" ELSE "exists"]
              /\ UNCHANGED kfpExperiment
         ELSE /\ kfpExperiment' = TRUE
              /\ dLoc' = [dLoc EXCEPT ![w].experiment = "created"]
              /\ dPc' = [dPc EXCEPT ![w] = "submit"]
              /\ UNCHANGED dResp
    /\ UNCHANGED <<KFP_ENDPOINT, uuidCtr, delivered, dReq, dRid, kfpRuns, bvars, tvars>>

SuccessBody == {"message", "kfp_run_id", "kfp_run_url", "processed_bucket",
                "processed_key", "cloud_event_id_received", "request_id"}

\* A plausible slip: the submission is made a second time although the first
\* went through (a retry after a slow answer).
RunsAfterSubmitTwice(runs, run) == Append(Append(runs, run), [run EXCEPT !.id = @ + 1])

\* A plausible change: no second run is recorded for a CloudEvent id that has one.
RunsAfterSubmitOncePerEvent(runs, run) ==
    IF \E i \in DOMAIN runs : Truthy(run.ce_id) /\ runs[i].ce_id = run.ce_id
    THEN runs ELSE Append(runs, run)

\* Lines 320-325: one run_pipeline call that succeeds adds one run.
RunsAfterSubmit(runs, run) == Append(runs, run)

\* Lines 310-347: the run name, the submission, the success response.
\* object_key.replace raises AttributeError when the key is no str, and
\* run_pipeline returns the run or raises; either exception reaches the
\* except clause of line 352.
DSubmit(w) ==
    /\ dPc[w] = "submit"
    /\ IF ~IsStr(dLoc[w].object_key)
       THEN /\ DRespond(w, ExceptResponse("AttributeError"))
            /\ UNCHANGED <<dCalls, kfpRuns, dLoc>>
       ELSE /\ dCalls' = [dCalls EXCEPT ![w].run_pipeline = @ + 1]
            /\ \E raised \in BOOLEAN :
                 IF raised
                 THEN /\ DRespond(w, ExceptResponse("ApiException"))
                      /\ dLoc' = [dLoc EXCEPT ![w].run_result = "raise"]
                      /\ UNCHANGED kfpRuns
                 ELSE LET ce_id == CloudEventIdReceived(dReq[w], dLoc[w].payload)
                          run == [id |-> Len(kfpRuns) + 1,
                                  name |-> RunName(dLoc[w].object_key.s, dRid[w]),
                                  pdf_s3_bucket |-> dLoc[w].bucket_name,
                                  pdf_s3_key |-> dLoc[w].object_key,
                                  request_id |-> dRid[w],
                                  ce_id |-> ce_id]
                      IN  /\ kfpRuns' = RunsAfterSubmit(kfpRuns, run)
                          /\ dLoc' = [dLoc EXCEPT ![w].run_result = "run"]
                          /\ DRespond(w, [status |-> 200, json |-> TRUE,
                                 keys |-> SuccessBody,
                                 kfp_run_id |-> run.id,
                                 kfp_run_name |-> run.name,
                                 processed_bucket |-> run.pdf_s3_bucket,
                                 processed_key |-> run.pdf_s3_key,
                                 cloud_event_id_received |->
                                     IF Truthy(ce_id) THEN ce_id ELSE Str(NotAvailable)])
    /\ UNCHANGED <<KFP_ENDPOINT, uuidCtr, delivered, dReq, dRid, kfpExperiment, bvars, tvars>>

\* Lines 92-97: the response goes out and the request's context is dropped.
DFinish(w) ==
    /\ dPc[w] = "done"
    /\ dPc' = [dPc EXCEPT ![w] = "idle"]
    /\ dReq' = [dReq EXCEPT ![w] = NoRequest]
    /\ dRid' = [dRid EXCEPT ![w] = <<>>]
    /\ dLoc' = [dLoc EXCEPT ![w] = NoLoc]
    /\ dCalls' = [dCalls EXCEPT ![w] = NoCalls]
    /\ dResp' = [dResp EXCEPT ![w] = NoResp]
    /\ UNCHANGED <<KFP_ENDPOINT, uuidCtr, delivered, kfpExperiment, kfpRuns, bvars, tvars>>

(***************************************************************************)
(* The requests delivered to the dispatcher.                               *)
(***************************************************************************)
ScenarioA == Obj([Records |-> Lst(<<Obj([eventName |-> Str(PutEvent),
                 s3 |-> Obj([bucket |-> Obj([name |-> Str(PdfInbox)]),
                             object |-> Obj([key |-> Str(Q1Pdf), size |-> Num(3)])])])>>)])
ScenarioB == Obj([Key |-> Str(Q1Pdf), Bucket |-> Str(PdfInbox)])
ScenarioD == Obj([foo |-> Str(Bar)])
RecordWith(eventName, s3) == Obj([Records |-> Lst(<<Obj([eventName |-> eventName, s3 |-> s3])>>)])
S3Of(bucket, key) == Obj([bucket |-> Obj([name |-> bucket]), object |-> Obj([key |-> key])])

KeyNotStr == RecordWith(Str(PutEvent), S3Of(Str(PdfInbox), Num(7)))

Payloads ==
    { ScenarioA, ScenarioB, ScenarioD,
      \* top-level Key with Bucket as MinIO's dict, as a str holding "name", absent
      Obj([Key |-> Str(Q1Pdf), Bucket |-> Obj([name |-> Str(PdfInbox)]),
           EventName |-> Str(PutEvent)]),
      Obj([Key |-> Str(Q1Pdf), Bucket |-> Str(RenameBucket)]),
      Obj([Key |-> Str(NotesTxt)]),
      \* the lower-case simplified form
      Obj([bucket |-> Str(PdfInbox), key |-> Str(Q1Pdf)]),
      \* Records together with the top-level fields
      Obj([EventName |-> Str(RemovedEvent), Key |-> Str(NotesTxt),
           Bucket |-> Obj([name |-> Str(RenameBucket)]),
           Records |-> ScenarioA.f["Records"]]),
      \* an empty Records list, with and without the top-level fields
      Obj([Records |-> Lst(<<>>), Key |-> Str(Q1Pdf),
           Bucket |-> Obj([name |-> Str(PdfInbox)])]),
      Obj([Records |-> Lst(<<>>)]),
      \* malformed records
      Obj([Records |-> Lst(<<Obj([eventName |-> Str(PutEvent)])>>)]),
      Obj([Records |-> Lst(<<Num(5)>>)]),
      RecordWith(Str(PutEvent), Str(Bar)),
      KeyNotStr,
      RecordWith(Str(PutEvent), S3Of(Str(PdfInbox), Null)),
      \* another event, another kind of object
      RecordWith(Str(RemovedEvent), S3Of(Str(PdfInbox), Str(NotesTxt))),
      RecordWith(Str(<<>>), S3Of(Str(PdfInbox), Str(Q1Pdf))) }

Envelope(id, data) == Obj([specversion |-> Str(SpecVersion), id |-> Str(id), data |-> data])

Malformed == <<Tok("{"), TKey("Key"), Tok(":")>>

Binary(id) == [h \in {"ce-specversion", "ce-id"} |-> IF h = "ce-id" THEN id ELSE SpecVersion]

\* Every way of decoding, on a few bodies ...
DecodeBodies ==
    {<<>>, Malformed, Dumps(EmptyObj), Dumps(Lst(<<Str(Bar)>>)), Dumps(ScenarioA),
     Dumps(Envelope(Evt123, ScenarioA)),
     Dumps(Obj([specversion |-> Str(SpecVersion), id |-> Str(Evt123)]))}
DecodeRequests ==
    {Request(ct, ce, body) : ct \in {CtCloudEvents, CtJson, CtText},
                             ce \in {NoHeaders, Binary(Evt123)}, body \in DecodeBodies}
\* ... and every payload, as the bridge sends it (binary mode) and structured.
PayloadRequests ==
    {Request(CtJson, Binary(Evt123), Dumps(d)) : d \in Payloads}
    \cup {Request(CtCloudEvents, NoHeaders, Dumps(Envelope(Evt123, d))) : d \in Payloads}
    \cup {Request(CtJson, Binary(Evt456), Dumps(ScenarioA))}

DRequests == DecodeRequests \cup PayloadRequests

(***************************************************************************)
(* The bridge, apps/minio-event-bridge/app.py: webhook.                    *)
(***************************************************************************)
OkV(v) == [out |-> "ok", v |-> v]

\* Lines 81-90: the MinIO event of the request.
BridgeDecode(req) ==
    IF IsJsonMime(req.ct)
    THEN IF ~LoadsOk(req.body) THEN Raise("BadRequest") ELSE OkV(Loads(req.body))
    ELSE IF req.body # <<>>
    THEN IF ~LoadsOk(req.body) THEN Raise("JSONDecodeError") ELSE OkV(Loads(req.body))
    ELSE Return(400, {"status", "message"})

\* A plausible slip: Records is indexed without the membership test.
EventTypeFromRecordsUnguarded(ev) ==
    IF ~IsDict(ev) THEN Raise("TypeError")
    ELSE IF ~In("Records", ev) THEN Raise("KeyError")
    ELSE OkV(Str(UnknownEventType))

\* Lines 97-100: the elif branch of the event type.
EventTypeFromRecords(ev) ==
    IF ~In("Records", ev) THEN OkV(Str(UnknownEventType))
    ELSE IF ~IsDict(ev) THEN Raise("TypeError")
    ELSE IF ~(IsList(ev.f["Records"]) /\ Len(ev.f["Records"].l) > 0)
    THEN OkV(Str(UnknownEventType))
    ELSE LET record == ev.f["Records"].l[1]
         IN  IF ~InOk(record) THEN Raise("TypeError")
             ELSE IF ~In("eventName", record) THEN OkV(Str(UnknownEventType))
             ELSE IF ~IsDict(record) THEN Raise("TypeError")
             ELSE IF Truthy(record.f["eventName"]) THEN OkV(record.f["eventName"])
             ELSE OkV(Str(UnknownEventType))

\* Lines 94-100: the CloudEvent type.
EventType(ev) ==
    IF ~InOk(ev) THEN Raise("TypeError")
    ELSE IF In("EventName", ev)
    THEN IF ~IsDict(ev) THEN Raise("TypeError")
         ELSE IF Truthy(ev.f["EventName"]) THEN OkV(ev.f["EventName"])
         ELSE EventTypeFromRecords(ev)
    ELSE EventTypeFromRecords(ev)

\* Lines 116-119: the object key of Records[0].
ObjectKeyFromRecords(ev) ==
    IF ~In("Records", ev) THEN OkV(Null)
    ELSE IF ~IsDict(ev) THEN Raise("TypeError")
    ELSE IF ~(IsList(ev.f["Records"]) /\ Len(ev.f["Records"].l) > 0) THEN OkV(Null)
    ELSE LET record == ev.f["Records"].l[1]
         IN  IF ~InOk(record) THEN Raise("TypeError")
             ELSE IF ~In("s3", record) THEN OkV(Null)
             ELSE IF ~IsDict(record) THEN Raise("TypeError")
             ELSE IF ~InOk(record.f["s3"]) THEN Raise("TypeError")
             ELSE IF ~In("object", record.f["s3"]) THEN OkV(Null)
             ELSE IF ~IsDict(record.f["s3"]) THEN Raise("TypeError")
             ELSE IF ~InOk(record.f["s3"].f["object"]) THEN Raise("TypeError")
             ELSE IF ~In("key", record.f["s3"].f["object"]) THEN OkV(Null)
             ELSE IF ~IsDict(record.f["s3"].f["object"]) THEN Raise("TypeError")
             ELSE OkV(record.f["s3"].f["object"].f["key"])

\* Lines 113-119: object_key (the event is a dict, list or str here).
ObjectKey(ev) ==
    IF In("Key", ev)
    THEN IF ~IsDict(ev) THEN Raise("TypeError") ELSE OkV(ev.f["Key"])
    ELSE ObjectKeyFromRecords(ev)

BridgeSource == <<"u","r","n",":","m","i","n","i","o",":","s","3",":",":",":","w","e","b","h","o","o","k">>

\* A plausible slip: the body is marshalled in structured mode (the whole
\* envelope) while the headers stay those of binary mode.
ToBinaryStructuredBody(type, id, subject, data) ==
    Request(CtJson,
            [h \in {"ce-specversion", "ce-id"} |->
                IF h = "ce-id" THEN id ELSE SpecVersion],
            Dumps(Obj([specversion |-> Str(SpecVersion), id |-> Str(id),
                       type |-> type, data |-> data])))

\* Lines 104-136: the CloudEvent in HTTP binary mode: the ce-* headers of the
\* attributes that are not None, Content-Type from datacontenttype, and the
\* data written by json.dumps.  (ce-time, the clock's reading, is left out.)
ToBinary(type, id, subject, data) ==
    Request(CtJson,
            [h \in {"ce-specversion", "ce-id", "ce-source", "ce-type"}
                   \cup (IF subject = Null THEN {} ELSE {"ce-subject"}) |->
                CASE h = "ce-specversion" -> SpecVersion
                  [] h = "ce-id" -> id
                  [] h = "ce-source" -> BridgeSource
                  [] h = "ce-type" -> type.s
                  [] h = "ce-subject" -> subject.s],
            Dumps(data))

\* Lines 81-146: from the request to the CloudEvent to POST; id is the uuid4
\* drawn for attributes["id"].
BridgeBuild(req, id) ==
    LET d == BridgeDecode(req)
    IN  IF d.out # "ok" THEN d
        ELSE LET t == EventType(d.v)
             IN  IF t.out # "ok" THEN t
                 ELSE LET k == ObjectKey(d.v)
                      IN  IF k.out # "ok" THEN k
                          ELSE [out |-> "ok",
                                event |-> ToBinary(t.v, id,
                                             IF Truthy(k.v) THEN k.v ELSE Null, d.v)]

\* Lines 166-174: the except clauses of webhook.
BridgeErrorBody == {"status", "message"}
BridgeExceptResponse(exc) ==
    [status |-> CASE exc = "JSONDecodeError" -> 400
                  [] exc = "RequestException" -> 503
                  [] OTHER -> 500,
     json |-> TRUE, keys |-> BridgeErrorBody]

MaxBridgeRequests == 2
MaxPlan == 3

\* Lines 48-51: a request arrives and before_request draws its request id.
\* plan: what the broker would answer to this request's POSTs, in order.
BReceive(req, plan) ==
    /\ bPc = "idle"
    /\ bServed < MaxBridgeRequests
    /\ bServed' = bServed + 1
    /\ bPc' = "handling"
    /\ bReq' = req
    /\ bPlan' = plan
    /\ bRid' = Uuid4(uuidCtr)
    /\ uuidCtr' = uuidCtr + 1
    /\ bEvent' = NoRequest
    /\ bAttempts' = 0
    /\ bResp' = NoResp
    /\ UNCHANGED <<dvarsButUuid, tvars>>

\* A plausible change: the request id is used as the CloudEvent id.
BHandleCorrelated ==
    /\ bPc = "handling"
    /\ \E b \in {BridgeBuild(bReq, bRid)} :
           CASE b.out = "return" ->
                  /\ bResp' = [status |-> b.status, json |-> TRUE, keys |-> b.keys]
                  /\ bPc' = "done"
                  /\ UNCHANGED <<bEvent, bAttempts, uuidCtr>>
             [] b.out = "raise" ->
                  /\ bResp' = BridgeExceptResponse(b.exc)
                  /\ bPc' = "done"
                  /\ UNCHANGED <<bEvent, bAttempts, uuidCtr>>
             [] OTHER ->
                  /\ bEvent' = b.event
                  /\ bAttempts' = 1
                  /\ bPc' = "posting"
                  /\ UNCHANGED <<bResp, uuidCtr>>
    /\ UNCHANGED <<bReq, bRid, bPlan, bServed, dvarsButUuid, tvars>>

\* Lines 69-152: webhook up to the POST to the broker.
BHandle ==
    /\ bPc = "handling"
    /\ \E b \in {BridgeBuild(bReq, Uuid4(uuidCtr))} :
           CASE b.out = "return" ->
                  /\ bResp' = [status |-> b.status, json |-> TRUE, keys |-> b.keys]
                  /\ bPc' = "done"
                  /\ UNCHANGED <<bEvent, bAttempts, uuidCtr>>
             [] b.out = "raise" ->
                  /\ bResp' = BridgeExceptResponse(b.exc)
                  /\ bPc' = "done"
                  /\ UNCHANGED <<bEvent, bAttempts, uuidCtr>>
             [] OTHER ->
                  /\ bEvent' = b.event
                  /\ uuidCtr' = uuidCtr + 1
                  /\ bAttempts' = 1
                  /\ bPc' = "posting"
                  /\ UNCHANGED bResp
    /\ UNCHANGED <<bReq, bRid, bPlan, bServed, dvarsButUuid, tvars>>

\* Lines 148-171: requests.post returns the broker's answer, whatever its
\* status, or raises a RequestException when the exchange itself fails.
\* The call carries no timeout: while the broker is silent it does not return.
\* The broker's answer to the n-th POST of a request (its last answer repeats).
BrokerAnswer(plan, n) == plan[IF n < Len(plan) THEN n ELSE Len(plan)]

\* Lines 148-152: the pending POST returns or raises once the broker has
\* answered or the exchange has failed; nothing else ends the call.
PostReturns == bPc = "posting" /\ BrokerAnswer(bPlan, bAttempts).kind # "none"

\* A plausible change: a POST that did not end in 2xx is made again.
BBrokerAnswerRetrying ==
    /\ PostReturns
    /\ LET answer == BrokerAnswer(bPlan, bAttempts)
           accepted == answer.kind = "status" /\ answer.code \in 200..299
       IN  IF ~accepted /\ bAttempts < MaxPlan
           THEN /\ bAttempts' = bAttempts + 1
                /\ UNCHANGED <<bPc, bResp>>
           ELSE /\ bResp' = [status |-> IF accepted THEN 200 ELSE 503, json |-> TRUE,
                             keys |-> {"status", "message", "cloud_event_id",
                                       "broker_response_status"},
                             body_status |-> IF accepted THEN "success" ELSE "error",
                             cloud_event_id |-> Header(bEvent, "ce-id"),
                             broker_response_status |-> answer.code]
                /\ bPc' = "done"
                /\ UNCHANGED bAttempts
    /\ UNCHANGED <<bReq, bRid, bEvent, bPlan, bServed, dvars, tvars>>

BridgeSuccessBody == {"status", "message", "cloud_event_id", "broker_response_status"}
BBrokerAnswer ==
    /\ PostReturns
    /\ LET answer == BrokerAnswer(bPlan, bAttempts)
       IN  /\ bResp' = IF answer.kind = "status"
                       THEN [status |-> 200, json |-> TRUE, keys |-> BridgeSuccessBody,
                             body_status |-> "success",
                             cloud_event_id |-> Header(bEvent, "ce-id"),
                             broker_response_status |-> answer.code]
                       ELSE BridgeExceptResponse("RequestException")
           /\ bPc' = "done"
           /\ UNCHANGED bAttempts
    /\ UNCHANGED <<bReq, bRid, bEvent, bPlan, bServed, dvars, tvars>>

\* Lines 57-61: the response goes out and the request's context is dropped.
BFinish ==
    /\ bPc = "done"
    /\ bPc' = "idle"
    /\ bReq' = NoRequest
    /\ bRid' = <<>>
    /\ bEvent' = NoRequest
    /\ bPlan' = <<>>
    /\ bAttempts' = 0
    /\ bResp' = NoResp
    /\ UNCHANGED <<bServed, dvars, tvars>>

(***************************************************************************)
(* The requests sent to the bridge and the broker's answers.               *)
(***************************************************************************)
\* The CloudEvent type and subject are strings in every payload but this one.
BridgePayloads == Payloads \ {KeyNotStr}

BDecodeBodies ==
    {<<>>, Malformed, Dumps(EmptyObj), Dumps(Lst(<<Str(Bar)>>)), Dumps(Num(5)),
     Dumps(ScenarioA), Dumps(Envelope(Evt123, ScenarioA))}
BRequests ==
    {Request(ct, ce, body) : ct \in {CtCloudEvents, CtJson, CtText},
                             ce \in {NoHeaders, Binary(Evt123)}, body \in BDecodeBodies}
    \cup {Request(CtJson, NoHeaders, Dumps(d)) : d \in BridgePayloads}

Status(code) == [kind |-> "status", code |-> code]
ConnectionError == [kind |-> "ConnectionError", code |-> 0]
\* The broker accepts the connection and never answers.
NoAnswer == [kind |-> "none", code |-> 0]
BrokerAnswers == {Status(200), Status(400), Status(503), ConnectionError, NoAnswer}
BrokerPlans == [1..MaxPlan -> BrokerAnswers]

\* What the broker delivers to the dispatcher when the bridge has forwarded a
\* payload: the binary-mode event with its ce-type, ce-source and ce-subject.
ForwardedPayloads ==
    {ScenarioA, ScenarioB, ScenarioD,
     Obj([EventName |-> Str(RemovedEvent), Key |-> Str(NotesTxt),
          Bucket |-> Obj([name |-> Str(RenameBucket)]),
          Records |-> ScenarioA.f["Records"]])}
ForwardedRequests ==
    {BridgeBuild(Request(CtJson, NoHeaders, Dumps(d)), Evt456).event : d \in ForwardedPayloads}

(***************************************************************************)
(* The mock ticketing API: create_incident and update_incident.            *)
(***************************************************************************)
TRespond(t, resp) ==
    /\ tResp' = [tResp EXCEPT ![t] = resp]
    /\ tPc' = [tPc EXCEPT ![t] = "done"]
MissingFields == [status |-> 400, json |-> TRUE, keys |-> {"error"}]
Unhandled == [status |-> 500, json |-> FALSE, keys |-> {}]

\* Lines 245-250: the required fields are checked and get_next_number starts
\* going through the keys of incidents_db.
CreateValidate(t, json) ==
    /\ tPc[t] = "idle"
    /\ tServed < MaxTicketRequests
    /\ tServed' = tServed + 1
    /\ tReq' = [tReq EXCEPT ![t] = json]
    /\ IF ~Truthy(json) \/ ~In("short_description", json) \/ ~In("caller_id", json)
          \/ ~In("description", json)
       THEN /\ TRespond(t, MissingFields)
            /\ UNCHANGED tLoc
       ELSE /\ tPc' = [tPc EXCEPT ![t] = "numbering"]
            /\ tLoc' = [tLoc EXCEPT ![t].size = Len(incidents_db)]
            /\ UNCHANGED tResp
    /\ UNCHANGED <<incidents_db, dvars, bvars>>

\* Lines 250-281: get_next_number comes to the end of the keys and the new
\* incident is built.  A dict that has grown under the loop makes it raise
\* RuntimeError.
CreateNumber(t) ==
    /\ tPc[t] = "numbering"
    /\ IF Len(incidents_db) # tLoc[t].size \/ ClosedOnCreationRaises(tReq[t])
       THEN /\ TRespond(t, Unhandled)
            /\ UNCHANGED tLoc
       ELSE \E new_incident_number \in {get_next_number(INC, KeysOf(incidents_db))} :
               /\ tLoc' = [tLoc EXCEPT ![t].number = new_incident_number,
                                        ![t].incident = NewIncident(tReq[t], new_incident_number)]
               /\ tPc' = [tPc EXCEPT ![t] = "storing"]
               /\ UNCHANGED tResp
    /\ UNCHANGED <<incidents_db, tServed, tReq, dvars, bvars>>

\* Lines 284-285: the incident goes into incidents_db under its number.
CreateStore(t) ==
    /\ tPc[t] = "storing"
    /\ incidents_db' = SetItem(incidents_db, tLoc[t].number, tLoc[t].incident)
    /\ TRespond(t, [status |-> 201, json |-> TRUE, keys |-> {"result"},
                    result |-> tLoc[t].incident])
    /\ UNCHANGED <<tServed, tReq, tLoc, dvars, bvars>>

\* Lines 288-318: update_incident.
update_incident(t, incident_number, json) ==
    /\ tPc[t] = "idle"
    /\ tServed < MaxTicketRequests
    /\ tServed' = tServed + 1
    /\ tReq' = [tReq EXCEPT ![t] = json]
    /\ tLoc' = [tLoc EXCEPT ![t].number = StrUpper(incident_number)]
    /\ IF ~HasKey(incidents_db, StrUpper(incident_number))
       THEN /\ TRespond(t, [status |-> 404, json |-> TRUE, keys |-> {"error"}])
            /\ UNCHANGED incidents_db
       ELSE IF ~Truthy(json)
       THEN /\ TRespond(t, [status |-> 400, json |-> TRUE, keys |-> {"error"}])
            /\ UNCHANGED incidents_db
       ELSE \E u \in {UpdatedIncident(IncidentAt(incidents_db, StrUpper(incident_number)), json)} :
               /\ incidents_db' = SetItem(incidents_db, StrUpper(incident_number), u.incident)
               /\ IF u.out = "raise" THEN TRespond(t, Unhandled)
                  ELSE TRespond(t, [status |-> 200, json |-> TRUE, keys |-> {"result"},
                                    result |-> u.incident])
    /\ UNCHANGED <<dvars, bvars>>

\* The response goes out and the thread takes the next request.
TFinish(t) ==
    /\ tPc[t] = "done"
    /\ tPc' = [tPc EXCEPT ![t] = "idle"]
    /\ tReq' = [tReq EXCEPT ![t] = Null]
    /\ tLoc' = [tLoc EXCEPT ![t] = NoTLoc]
    /\ tResp' = [tResp EXCEPT ![t] = NoResp]
    /\ UNCHANGED <<incidents_db, tServed, dvars, bvars>>

\* The requests sent to the ticketing API.
Required == [short_description |-> Str(<<"V","P","N">>), caller_id |-> Str(<<"d","a","v","i","d">>),
             description |-> Str(<<"d","r","o","p","s">>)]
CreateBodies ==
    { EmptyObj,
      Obj([short_description |-> Str(<<"V","P","N">>), caller_id |-> Str(<<"d","a","v","i","d">>)]),
      Obj(Required),
      Obj(Required @@ [state |-> Str(Closed)]),
      Obj(Required @@ [state |-> Str(StrLower(Closed)), resolution_notes |-> Str(<<"f","i","x","e","d">>)]),
      Obj(Required @@ [state |-> Str(StrUpper(Resolved)), resolution_notes |-> Str(<<>>)]),
      Obj(Required @@ [state |-> Num(5), resolution_notes |-> Str(<<"f","i","x","e","d">>)]) }
Inc1006 == <<"I","N","C","0","0","1","0","0","6">>
Inc1007 == <<"I","N","C","0","0","1","0","0","7">>
Inc9999 == <<"I","N","C","0","0","9","9","9","9">>
UpdateNumbers == {Inc1001, StrLower(Inc1006), Inc9999}
UpdateBodies ==
    { EmptyObj,
      Obj([state |-> Str(Closed)]),
      Obj([state |-> Str(New)]),
      Obj([closed_at |-> Str(<<>>)]),
      Obj([state |-> Str(Resolved), resolution_notes |-> Str(<<>>)]),
      Obj([state |-> Num(5)]),
      Obj([number |-> Str(Inc9999), state |-> Str(StrLower(Resolved))]) }

\* Deliveries handled one at a time, by worker 1.
Next ==
    \/ \E req \in DRequests \cup ForwardedRequests : DReceive(1, req)
    \/ DHandle(1)
    \/ DGetExperiment(1)
    \/ DCreateExperiment(1)
    \/ DSubmit(1)
    \/ DFinish(1)

Spec == Init /\ [][Next]_vars

\* Webhook requests handled one at a time.
NextBridge ==
    \/ \E req \in BRequests, plan \in BrokerPlans : BReceive(req, plan)
    \/ BHandle
    \/ BBrokerAnswer
    \/ BFinish

\* The dispatcher's configuration plays no part in the bridge.
InitBridge == Init /\ KFP_ENDPOINT /\ kfpExperiment
SpecBridge == InitBridge /\ [][NextBridge]_vars
\* Requests handled concurrently by the workers of the threaded server: any
\* worker takes any step at any time.  Deliveries of one event (same
\* CloudEvent id, same payload), of another event, and of another object.
ConcRequests ==
    {Request(CtJson, Binary(Evt123), Dumps(ScenarioA)),
     Request(CtJson, Binary(Evt456), Dumps(ScenarioA)),
     Request(CtJson, Binary(Evt123), Dumps(Obj([Key |-> Str(NotesTxt)])))}
NextConc ==
    \E w \in Workers :
        \/ \E req \in ConcRequests : DReceive(w, req)
        \/ DHandle(w)
        \/ DGetExperiment(w)
        \/ DCreateExperiment(w)
        \/ DSubmit(w)
        \/ DFinish(w)
SpecConc == Init /\ [][NextConc]_vars

\* The ticketing API serving one request at a time.
InitTickets == Init /\ KFP_ENDPOINT /\ kfpExperiment
NextTickets ==
    \/ \E json \in CreateBodies : CreateValidate(1, json)
    \/ CreateNumber(1)
    \/ CreateStore(1)
    \/ \E incident_number \in UpdateNumbers, json \in UpdateBodies :
          update_incident(1, incident_number, json)
    \/ TFinish(1)
SpecTickets == InitTickets /\ [][NextTickets]_vars

\* The ticketing API serving its requests on threads.
ConcCreateBodies == {Obj(Required), Obj(Required @@ [state |-> Str(Closed)])}
ConcUpdateBodies == {Obj([state |-> Str(New)])}
NextTicketsConc ==
    \E t \in Threads :
        \/ \E json \in ConcCreateBodies : CreateValidate(t, json)
        \/ CreateNumber(t)
        \/ CreateStore(t)
        \/ \E incident_number \in {Inc1001, Inc1006}, json \in ConcUpdateBodies :
              update_incident(t, incident_number, json)
        \/ TFinish(t)
SpecTicketsConc == InitTickets /\ [][NextTicketsConc]_vars

(***************************************************************************)
(* Properties.                                                             *)
(***************************************************************************)
Posted == bPc \in {"posting", "done"} /\ bAttempts >= 1
FirstAnswer == BrokerAnswer(bPlan, 1)
Answered(w) == dPc[w] = "done"
RunsOfRequest(rid) == {i \in DOMAIN kfpRuns : kfpRuns[i].request_id = rid}
BinaryDelivery(d) == Request(CtJson, Binary(Evt123), Dumps(d))

\* C1 as stated: each correlation id (CloudEvent id) maps to at most one
\* submitted run, however many deliveries carry it.
C1_OneRunPerCorrelationId ==
    \A i, j \in DOMAIN kfpRuns :
        (Truthy(kfpRuns[i].ce_id) /\ kfpRuns[i].ce_id = kfpRuns[j].ce_id) => i = j

\* C1 as amended: there is no dedup map; each delivery (request id) maps to at
\* most one run, a run of its own, and its 200 response names that run.
C1_OneRunPerDelivery ==
    /\ \A i, j \in DOMAIN kfpRuns :
          kfpRuns[i].request_id = kfpRuns[j].request_id => i = j
    /\ \A w \in Workers :
          (Answered(w) /\ dResp[w].status = 200) =>
             /\ RunsOfRequest(dRid[w]) = {Len(kfpRuns)}
             /\ dResp[w].kfp_run_id = kfpRuns[Len(kfpRuns)].id

C1_Witness ==
    /\ Answered(1) /\ dResp[1].status = 200
    /\ Len(kfpRuns) = 2
    /\ kfpRuns[1].ce_id = Str(Evt123) /\ kfpRuns[2].ce_id = Str(Evt123)
    /\ kfpRuns[1].pdf_s3_key = kfpRuns[2].pdf_s3_key

\* C2 as stated: no run is submitted and no success response is produced with
\* a placeholder bucket or object key.
C2_NoPlaceholders ==
    /\ \A i \in DOMAIN kfpRuns :
          /\ kfpRuns[i].pdf_s3_bucket # Str(UnknownBucket)
          /\ kfpRuns[i].pdf_s3_key # Str(UnknownKey)
    /\ \A w \in Workers :
          (Answered(w) /\ dResp[w].status = 200) =>
             /\ dResp[w].processed_bucket # Str(UnknownBucket)
             /\ dResp[w].processed_key # Str(UnknownKey)

\* The event data has none of the shapes the handler looks for.
NoKnownShape(d) ==
    /\ ~("Records" \in DOMAIN d.f /\ IsList(d.f["Records"]) /\ Len(d.f["Records"].l) > 0)
    /\ "Key" \notin DOMAIN d.f
OnlyKey(d) == DOMAIN d.f = {"Key"}

\* C2 as amended: a payload of no known shape is not rejected; bucket and key
\* are each set to "unknown_bucket" / "unknown_key" when not found,
\* independently, and the request goes on to the lookup and the submission.
C2_PlaceholdersSubmitted ==
    \A w \in Workers, d \in Payloads :
        (dReq[w] = BinaryDelivery(d) /\ dPc[w] \notin {"idle", "handling"}) =>
           /\ NoKnownShape(d) =>
                /\ dResp[w].status \notin {400}
                /\ dLoc[w].bucket_name = Str(UnknownBucket)
                /\ dLoc[w].object_key = Str(UnknownKey)
                /\ (KFP_ENDPOINT /\ Answered(w)) => dResp[w].status \in {200, 404, 500}
                /\ dResp[w].status = 200 =>
                     /\ dResp[w].processed_bucket = Str(UnknownBucket)
                     /\ dResp[w].processed_key = Str(UnknownKey)
                     /\ kfpRuns[Len(kfpRuns)].pdf_s3_bucket = Str(UnknownBucket)
                     /\ kfpRuns[Len(kfpRuns)].pdf_s3_key = Str(UnknownKey)
           /\ OnlyKey(d) =>
                /\ dLoc[w].bucket_name = Str(UnknownBucket)
                /\ dLoc[w].object_key = d.f["Key"]

C2_Witness ==
    /\ dReq[1] = BinaryDelivery(ScenarioD)
    /\ Answered(1) /\ dResp[1].status = 200
    /\ kfpRuns[Len(kfpRuns)].pdf_s3_key = Str(UnknownKey)

\* What the dispatcher's decode and extraction make of a request: the
\* notification, or a failure.
DispatcherView(req) ==
    LET pre == Prelude(req)
    IN  IF pre.out = "ok"
        THEN [out |-> "ok", bucket |-> pre.bucket_name, objectKey |-> pre.object_key,
              eventName |-> pre.eventName]
        ELSE [out |-> "failure"]

\* C3 as stated: for every input the bridge forwards, the dispatcher extracts
\* from the forwarded event what it extracts from the input itself, in
\* structured mode too.
C3_RoundTripEveryMode ==
    Posted => DispatcherView(bEvent) = DispatcherView(bReq)

\* C3 as amended: the round trip holds for the inputs that are not structured
\* CloudEvents (the bridge takes the whole body as the event data and forwards
\* in binary mode only).
C3_RoundTripUnlessStructured ==
    (Posted /\ bReq.ct # CtCloudEvents) => DispatcherView(bEvent) = DispatcherView(bReq)

C3_Witness ==
    /\ Posted /\ bReq.ct = CtText
    /\ DispatcherView(bEvent).out = "ok"
    /\ DispatcherView(bEvent).bucket = Str(PdfInbox)
    /\ DispatcherView(bEvent).objectKey = Str(Q1Pdf)

\* C4: one forward makes at most one POST (so never more than a bound of
\* three however the broker fails), and exactly one when the broker answers 4xx.
C4_AttemptsBounded ==
    /\ bAttempts <= 1
    /\ (bPc = "done" /\ Posted /\ FirstAnswer.code \in 400..499) => bAttempts = 1

C4_Witness ==
    /\ bPc = "done" /\ Posted
    /\ \A i \in 1..MaxPlan : bPlan[i] = Status(503)

Scenario_C == <<Status(503), Status(503), Status(200)>>

\* C5 as stated: with the broker answering 503, 503, 200 the forward makes
\* three attempts and succeeds on the third.
C5_RetriedUntilSuccess ==
    (bPc = "done" /\ Posted /\ bPlan = Scenario_C) =>
        /\ bAttempts = 3
        /\ bResp.broker_response_status = 200

\* C5 as amended: the forward makes one attempt only; it stops after the
\* first 503 and hands that status to the caller.
C5_StopsAfterFirstAnswer ==
    (bPc = "done" /\ Posted /\ bPlan = Scenario_C) =>
        /\ bAttempts = 1
        /\ bResp.broker_response_status = 503

C5_Witness == bPc = "done" /\ Posted /\ bPlan = Scenario_C /\ bResp.status # 0

\* C6: the webhook answers 200 only when the broker accepted the event; a 4xx
\* from the broker is answered 502, a 5xx or a failed exchange 503.
C6_SuccessOnlyWhenAccepted ==
    (bPc = "done" /\ Posted) =>
        /\ bResp.status = 200 <=> FirstAnswer.code \in 200..299
        /\ FirstAnswer.code \in 400..499 => bResp.status = 502
        /\ (FirstAnswer.code \in 500..599 \/ FirstAnswer.kind = "ConnectionError")
              => bResp.status = 503

\* C7: a body that is no JSON document is answered 400 and causes no outbound
\* call, on POST / and on POST /webhook.
C7_MalformedIs400 ==
    /\ \A w \in Workers :
          (Answered(w) /\ ~LoadsOk(dReq[w].body)) =>
              dResp[w].status = 400 /\ dCalls[w] = NoCalls
    /\ (bPc = "done" /\ ~LoadsOk(bReq.body)) => bResp.status = 400 /\ bAttempts = 0

C9_PipelineNotFound ==
    \A w \in Workers :
        dLoc[w].pipeline_id \in {"none", "raise"} =>
           /\ Answered(w) /\ dResp[w].status = 404
           /\ dCalls[w] = [NoCalls EXCEPT !.get_pipeline_id = 1]
           /\ RunsOfRequest(dRid[w]) = {}

C9_Witness == Answered(1) /\ dLoc[1].pipeline_id = "raise" /\ dResp[1].status = 404

\* C10: a request makes at most one run-submission call, and a submission
\* that fails is answered 500, with no run added.
C10_SubmissionNotRetried ==
    \A w \in Workers :
        /\ dCalls[w].run_pipeline <= 1
        /\ Cardinality(RunsOfRequest(dRid[w])) <= 1
        /\ dLoc[w].run_result = "raise" =>
              /\ Answered(w) /\ dResp[w].status \in {500, 503}
              /\ dCalls[w].run_pipeline = 1
              /\ RunsOfRequest(dRid[w]) = {}

C10_Witness == Answered(1) /\ dLoc[1].run_result = "raise" /\ dResp[1].status = 500
\* C11: every response of POST / and of POST /webhook is a JSON body with at
\* least the fields status, message and the request id.
C11_UniformBody ==
    /\ \A w \in Workers :
          Answered(w) =>
             dResp[w].json /\ {"status", "message", "request_id"} \subseteq dResp[w].keys
    /\ bPc = "done" =>
          bResp.json /\ {"status", "message", "request_id"} \subseteq bResp.keys

\* The extraction has gone through for worker w's request.
Extracted(w) == dPc[w] \notin {"idle", "handling"} /\ dLoc[w].eventName # Null
NotificationOf(r) ==
    [bucket |-> r.bucket_name, objectKey |-> r.object_key, eventName |-> r.eventName]
\* Every deliverable request with its decoded event and with what the
\* handler's first part makes of it.
Deliverable == DRequests \cup ForwardedRequests
DecodedOf == [req \in Deliverable |-> DecodeEvent(req)]
PreludeOf == [req \in Deliverable |-> Prelude(req)]
SameEventData(req1, req2) ==
    /\ DecodedOf[req1].out = "ok" /\ DecodedOf[req2].out = "ok"
    /\ DecodedOf[req1].data = DecodedOf[req2].data

\* C12: the extraction is deterministic: whatever the request id, the
\* headers, the content type and the requests served before, what a request
\* yields is what any request carrying the same event data yields.
C12_ExtractionDeterministic ==
    \A w \in Workers :
        Extracted(w) =>
            \A req \in Deliverable :
                SameEventData(dReq[w], req) =>
                    /\ PreludeOf[req].out = "ok"
                    /\ NotificationOf(PreludeOf[req]) = NotificationOf(dLoc[w])

C12_Witness ==
    /\ Extracted(1) /\ delivered = 2 /\ Len(kfpRuns) = 1
    /\ dReq[1] \in ForwardedRequests
    /\ \E req \in DRequests : req.ct = CtCloudEvents /\ SameEventData(dReq[1], req)
    /\ dLoc[1].bucket_name = Str(UnknownBucket) /\ dLoc[1].object_key = Str(Q1Pdf)
\* The event data of worker w's request.
DataOf(w) == DecodedOf[dReq[w]].data
HasRecords(d) ==
    "Records" \in DOMAIN d.f /\ IsList(d.f["Records"]) /\ Len(d.f["Records"].l) > 0
\* Records[0] is an object with eventName, s3.bucket.name and s3.object.key.
HasFullRecord(d) ==
    /\ HasRecords(d)
    /\ LET r == d.f["Records"].l[1]
       IN  /\ IsDict(r) /\ {"eventName", "s3"} \subseteq DOMAIN r.f
           /\ IsDict(r.f["s3"]) /\ {"bucket", "object"} \subseteq DOMAIN r.f["s3"].f
           /\ IsDict(r.f["s3"].f["bucket"]) /\ "name" \in DOMAIN r.f["s3"].f["bucket"].f
           /\ IsDict(r.f["s3"].f["object"]) /\ "key" \in DOMAIN r.f["s3"].f["object"].f
Record0(d) == d.f["Records"].l[1]
TopLevelName(d) == "EventName" \in DOMAIN d.f /\ Truthy(d.f["EventName"])

\* C13 as stated: with a non-empty Records list the event name, the bucket and
\* the object key are those of Records[0], whatever else the payload has.
C13_AllFromRecord ==
    \A w \in Workers :
        (Extracted(w) /\ HasFullRecord(DataOf(w))) =>
            /\ dLoc[w].bucket_name = Record0(DataOf(w)).f["s3"].f["bucket"].f["name"]
            /\ dLoc[w].object_key = Record0(DataOf(w)).f["s3"].f["object"].f["key"]
            /\ Truthy(Record0(DataOf(w)).f["eventName"]) =>
                  dLoc[w].eventName = Record0(DataOf(w)).f["eventName"]

\* C13 as amended: bucket and object key are those of Records[0]; the event
\* name is the top-level EventName when the payload has one, and that of
\* Records[0] only otherwise (the default when that one is empty).
C13_TopLevelNameFirst ==
    \A w \in Workers :
        (Extracted(w) /\ HasFullRecord(DataOf(w))) =>
            /\ dLoc[w].bucket_name = Record0(DataOf(w)).f["s3"].f["bucket"].f["name"]
            /\ dLoc[w].object_key = Record0(DataOf(w)).f["s3"].f["object"].f["key"]
            /\ dLoc[w].eventName =
                  IF TopLevelName(DataOf(w)) THEN DataOf(w).f["EventName"]
                  ELSE IF Truthy(Record0(DataOf(w)).f["eventName"])
                       THEN Record0(DataOf(w)).f["eventName"]
                       ELSE Str(DefaultEventName)

C13_Witness ==
    /\ Extracted(1) /\ HasFullRecord(DataOf(1)) /\ TopLevelName(DataOf(1))
    /\ Record0(DataOf(1)).f["eventName"] = Str(PutEvent)
    /\ dLoc[1].eventName = Str(RemovedEvent)
    /\ dLoc[1].bucket_name = Str(PdfInbox) /\ dLoc[1].object_key = Str(Q1Pdf)
Handled(w) == dPc[w] \notin {"idle", "handling"}
Decoded(w) == Handled(w) /\ DecodedOf[dReq[w]].out = "ok"
\* No non-empty Records, a top-level Key, and the bucket's name as a string
\* under Bucket (or bucket).
BucketField(d) == IF "Bucket" \in DOMAIN d.f THEN "Bucket" ELSE "bucket"
KeyAndBucketName(d) ==
    /\ ~HasRecords(d) /\ "Key" \in DOMAIN d.f
    /\ BucketField(d) \in DOMAIN d.f /\ IsStr(d.f[BucketField(d)])

\* C14: a payload with top-level Key and the bucket name as a string yields
\* objectKey = Key and bucket = that string.
C14_KeyAndBucketName ==
    \A w \in Workers :
        (Decoded(w) /\ KeyAndBucketName(DataOf(w))) =>
            /\ Extracted(w)
            /\ dLoc[w].object_key = DataOf(w).f["Key"]
            /\ dLoc[w].bucket_name = DataOf(w).f[BucketField(DataOf(w))]
\* The body of each deliverable request as a JSON document, when it is one.
BodyOf == [req \in Deliverable |-> IF LoadsOk(req.body) THEN Loads(req.body) ELSE Null]
IsEventData(v) == IsDict(v) /\ Truthy(v)
\* What the handler has to show for event data d: the extraction of d, or the
\* 500 of an extraction that raised.
ShowsExtractionOf(w, d) ==
    LET e == ExtractS3Info(d)
    IN  IF e.out = "ok"
        THEN Extracted(w) /\ NotificationOf(dLoc[w]) = NotificationOf(e)
        ELSE Answered(w) /\ dResp[w].status = 500

\* C15: the decoder takes the first strategy that matches: the `data` field
\* of the body under application/cloudevents+json, whatever the headers;
\* otherwise the whole body, under a ce-specversion header with a body, a
\* JSON content type, or any content type with a body; otherwise, and when
\* the body is no JSON document, the request fails with an error response.
C15_DecoderPriority ==
    \A w \in Workers :
        Handled(w) =>
            LET req == dReq[w]
                body == BodyOf[req]
            IN  /\ (req.ct = CtCloudEvents /\ IsDict(body)) =>
                      /\ dLoc[w].payload = (IF Extracted(w) THEN body ELSE Null)
                      /\ IF IsEventData(Get(body, "data", Null))
                         THEN ShowsExtractionOf(w, body.f["data"])
                         ELSE Answered(w) /\ dResp[w].status = 400
                /\ (req.ct # CtCloudEvents /\ req.body # <<>> /\ IsEventData(body)) =>
                      /\ dLoc[w].payload = Null
                      /\ ShowsExtractionOf(w, body)
                /\ (~IsJsonMime(req.ct) /\ req.body = <<>>) =>
                      Answered(w) /\ dResp[w].status = 400 /\ dCalls[w] = NoCalls
                /\ ~LoadsOk(req.body) =>
                      Answered(w) /\ dResp[w].status \in {400, 500} /\ dCalls[w] = NoCalls

\* Both the content type of structured mode and the header of binary mode:
\* the content type decides.
C15_Witness ==
    /\ Extracted(1)
    /\ dReq[1] = Request(CtCloudEvents, Binary(Evt123), Dumps(Envelope(Evt123, ScenarioA)))
    /\ dLoc[1].payload = Envelope(Evt123, ScenarioA)
    /\ dLoc[1].bucket_name = Str(PdfInbox) /\ dLoc[1].object_key = Str(Q1Pdf)
\* The request has no body, or what the decoder's rule takes for the event
\* data is absent or is no JSON object.
NoEventData(req) ==
    \/ req.body = <<>>
    \/ /\ LoadsOk(req.body)
       /\ IF req.ct = CtCloudEvents
          THEN ~(IsDict(BodyOf[req]) /\ IsDict(Get(BodyOf[req], "data", Null)))
          ELSE ~IsDict(BodyOf[req])

\* C16: a request without event data is answered 400, before any pipeline
\* lookup, experiment call or run submission.
C16_NoEventDataIs400 ==
    \A w \in Workers :
        (Handled(w) /\ NoEventData(dReq[w])) =>
            Answered(w) /\ dResp[w].status = 400 /\ dCalls[w] = NoCalls
\* Neither a non-empty Records list nor a top-level Key, but lower-case
\* bucket and key.
LowerCaseForm(d) ==
    ~HasRecords(d) /\ "Key" \notin DOMAIN d.f /\ {"bucket", "key"} \subseteq DOMAIN d.f

\* C17 as stated: the lower-case form yields bucket = data.bucket and
\* objectKey = data.key.
C17_LowerCaseMapped ==
    \A w \in Workers :
        (Extracted(w) /\ LowerCaseForm(DataOf(w))) =>
            /\ dLoc[w].bucket_name = DataOf(w).f["bucket"]
            /\ dLoc[w].object_key = DataOf(w).f["key"]

\* C17 as amended: the lower-case fields are not read; the payload is taken
\* as one without bucket and key, and "unknown_bucket" / "unknown_key" go
\* into the run it submits.
C17_LowerCaseNotRead ==
    \A w \in Workers :
        (Decoded(w) /\ LowerCaseForm(DataOf(w))) =>
            /\ Extracted(w)
            /\ dLoc[w].bucket_name = Str(UnknownBucket)
            /\ dLoc[w].object_key = Str(UnknownKey)
            /\ dLoc[w].run_result = "run" =>
                  /\ kfpRuns[Len(kfpRuns)].pdf_s3_bucket = Str(UnknownBucket)
                  /\ kfpRuns[Len(kfpRuns)].pdf_s3_key = Str(UnknownKey)

C17_Witness ==
    /\ Decoded(1) /\ LowerCaseForm(DataOf(1))
    /\ DataOf(1).f["bucket"] = Str(PdfInbox)
    /\ dLoc[1].run_result = "run" /\ dResp[1].status = 200
EmptyRecords(d) ==
    "Records" \in DOMAIN d.f /\ IsList(d.f["Records"]) /\ Len(d.f["Records"].l) = 0
\* Top-level Key, and Bucket as the object MinIO sends, with its name.
TopLevelKeyAndBucket(d) ==
    /\ {"Key", "Bucket"} \subseteq DOMAIN d.f
    /\ IsDict(d.f["Bucket"]) /\ "name" \in DOMAIN d.f["Bucket"].f

\* C18: the rules are tried in order and the first that matches decides: with
\* a non-empty Records list and top-level Key and Bucket, bucket and object
\* key are those of Records[0]; with an empty Records list, the top-level Key
\* and Bucket are used.
C18_FirstMatchingRule ==
    \A w \in Workers :
        (Decoded(w) /\ TopLevelKeyAndBucket(DataOf(w))) =>
            /\ HasFullRecord(DataOf(w)) =>
                  /\ Extracted(w)
                  /\ dLoc[w].bucket_name = Record0(DataOf(w)).f["s3"].f["bucket"].f["name"]
                  /\ dLoc[w].object_key = Record0(DataOf(w)).f["s3"].f["object"].f["key"]
            /\ EmptyRecords(DataOf(w)) =>
                  /\ Extracted(w)
                  /\ dLoc[w].bucket_name = DataOf(w).f["Bucket"].f["name"]
                  /\ dLoc[w].object_key = DataOf(w).f["Key"]

\* After a request that submitted a run, a payload with an empty Records
\* list, matched by the rule of the top-level Key and Bucket.
C18_Witness ==
    /\ Len(kfpRuns) = 1 /\ kfpRuns[1].pdf_s3_key = Str(Q1Pdf)
    /\ kfpRuns[1].pdf_s3_bucket = Str(PdfInbox)
    /\ kfpRuns[1].ce_id = Str(Evt456)
    /\ Decoded(1) /\ TopLevelKeyAndBucket(DataOf(1)) /\ EmptyRecords(DataOf(1))
    /\ dLoc[1].bucket_name = Str(PdfInbox) /\ dLoc[1].object_key = Str(Q1Pdf)
\* The event name the payload carries: the top-level EventName, else that of
\* Records[0] when the Records rule applies; Null when it carries none.
CarriedEventName(d) ==
    IF TopLevelName(d) THEN d.f["EventName"]
    ELSE IF HasRecords(d) /\ IsDict(Record0(d)) /\ "eventName" \in DOMAIN Record0(d).f
            /\ Truthy(Record0(d).f["eventName"])
    THEN Record0(d).f["eventName"]
    ELSE Null
Placeholder(w) ==
    dLoc[w].bucket_name = Str(UnknownBucket) \/ dLoc[w].object_key = Str(UnknownKey)
S3ObjectCreatedPut == <<"s","3",":","O","b","j","e","c","t","C","r","e","a","t","e","d",":","P","u","t">>

\* C19 as stated: the event name is "ObjectCreated:Unknown" when the payload
\* carries none, its own otherwise, and no request gets a default event
\* name together with a missing bucket or object key.
C19_DefaultUnknown ==
    \A w \in Workers :
        Extracted(w) =>
            /\ dLoc[w].eventName =
                  IF CarriedEventName(DataOf(w)) = Null THEN Str(ObjectCreatedUnknown)
                  ELSE CarriedEventName(DataOf(w))
            /\ CarriedEventName(DataOf(w)) = Null => ~Placeholder(w)

\* C19 as amended: the default is "s3:ObjectCreated:Put"; it is given when
\* the payload carries no event name (or an empty one), its own name is kept
\* otherwise, and the default is given as well to a payload whose bucket or
\* object key was not found.
C19_DefaultPut ==
    \A w \in Workers :
        Extracted(w) =>
            /\ dLoc[w].eventName =
                  IF CarriedEventName(DataOf(w)) = Null THEN Str(S3ObjectCreatedPut)
                  ELSE CarriedEventName(DataOf(w))
            /\ (DataOf(w) = ScenarioD) =>
                  /\ dLoc[w].eventName = Str(S3ObjectCreatedPut)
                  /\ dLoc[w].bucket_name = Str(UnknownBucket)
                  /\ dLoc[w].object_key = Str(UnknownKey)

C19_Witness ==
    /\ Extracted(1) /\ CarriedEventName(DataOf(1)) = Null /\ Placeholder(1)
    /\ dLoc[1].eventName = Str(S3ObjectCreatedPut)
    /\ dResp[1].status = 200
\* Malformed variants of the supported shapes.
MalformedRecord(d) ==
    /\ HasRecords(d)
    /\ \/ ~IsDict(Record0(d))
       \/ "s3" \notin DOMAIN Record0(d).f
       \/ ~IsDict(Record0(d).f["s3"])
       \/ ~IsDict(Get(Record0(d).f["s3"], "bucket", Null))
       \/ ~IsDict(Get(Record0(d).f["s3"], "object", Null))
NonStringKey(d) ==
    HasFullRecord(d) /\ ~IsStr(Record0(d).f["s3"].f["object"].f["key"])
MalformedShape(d) ==
    \/ MalformedRecord(d)
    \/ NonStringKey(d)
    \/ EmptyRecords(d) /\ DOMAIN d.f = {"Records"}

\* C20: a malformed variant of a supported shape is answered 400, and no
\* experiment is created and no run submitted for it.
C20_MalformedShapeIs400 ==
    \A w \in Workers :
        (Decoded(w) /\ IsEventData(DataOf(w)) /\ MalformedShape(DataOf(w))) =>
            /\ Answered(w) /\ dResp[w].status = 400
            /\ dCalls[w].create_experiment = 0 /\ dCalls[w].run_pipeline = 0
\* C21 as stated: the CloudEvent sent to the broker has the request id of
\* the inbound request as its id, and the caller is given that value.
C21_EventIdIsRequestId ==
    Posted =>
        /\ Header(bEvent, "ce-id") = bRid
        /\ (bPc = "done" /\ bResp.status = 200) => bResp.cloud_event_id = bRid

\* C21 as amended: the id of the CloudEvent is a uuid4 of its own, drawn
\* after the request id and different from it; the caller is given the id
\* of the event that was sent.
C21_EventIdIsFresh ==
    Posted =>
        /\ Header(bEvent, "ce-id") # bRid
        /\ Header(bEvent, "ce-id") = Uuid4(uuidCtr - 1)
        /\ (bPc = "done" /\ bResp.status = 200) =>
              bResp.cloud_event_id = Header(bEvent, "ce-id")

C21_Witness ==
    /\ Posted /\ bPc = "done" /\ bResp.status = 200 /\ bServed = 2
    /\ bResp.cloud_event_id = Uuid4(3) /\ bRid = Uuid4(2)
\* C22: a request that found the experiment missing and whose create failed
\* because another request had created it in between is not answered with an
\* error: it goes on to submit its run.
C22_CreateRaceTolerated ==
    \A w \in Workers :
        dLoc[w].experiment = "raced" =>
            ~(Answered(w) /\ dResp[w].status >= 400 /\ dCalls[w].run_pipeline = 0)
SameEvent(i, j) ==
    /\ Truthy(kfpRuns[i].ce_id) /\ kfpRuns[i].ce_id = kfpRuns[j].ce_id
    /\ kfpRuns[i].pdf_s3_key = kfpRuns[j].pdf_s3_key

\* C23 as stated: the run name is a function of the object key and of the
\* event's CloudEvent id: two deliveries of one event get the same run name.
C23_NameOfEvent ==
    \A i, j \in DOMAIN kfpRuns : SameEvent(i, j) => kfpRuns[i].name = kfpRuns[j].name

\* C23 as amended: the run name is made of the object key and of the first
\* eight characters of the request id, the uuid4 drawn for each request: for
\* one object, two runs have the same name only if those characters
\* coincide, and two deliveries of one event are named differently when
\* they do not.
C23_NameOfRequest ==
    /\ \A i \in DOMAIN kfpRuns :
          kfpRuns[i].name = PdfEventPrefix \o Replace(kfpRuns[i].pdf_s3_key.s, "/", "-")
                               \o <<" ", "-", " ">> \o Prefix(kfpRuns[i].request_id, 8)
    /\ \A i, j \in DOMAIN kfpRuns :
          kfpRuns[i].pdf_s3_key = kfpRuns[j].pdf_s3_key =>
             (kfpRuns[i].name = kfpRuns[j].name
                <=> Prefix(kfpRuns[i].request_id, 8) = Prefix(kfpRuns[j].request_id, 8))
    /\ \A w \in Workers :
          (Answered(w) /\ dResp[w].status = 200) =>
             dResp[w].kfp_run_name = kfpRuns[Len(kfpRuns)].name

C23_Witness ==
    /\ Len(kfpRuns) = 2 /\ SameEvent(1, 2)
    /\ kfpRuns[1].pdf_s3_key = Str(Q1Pdf)
    /\ kfpRuns[1].name # kfpRuns[2].name
\* The CloudEvent id of worker w's request.
CeIdOf(w) == CloudEventIdReceived(dReq[w], dLoc[w].payload)
RunsOfEvent(ce) == {i \in DOMAIN kfpRuns : kfpRuns[i].ce_id = ce}
\* Worker w's request is a later redelivery: when it arrived, a run of its
\* CloudEvent id was on record already.
Redelivery(w) ==
    /\ Handled(w) /\ Truthy(CeIdOf(w))
    /\ \E i \in 1..dLoc[w].runs_at_receipt : kfpRuns[i].ce_id = CeIdOf(w)

\* C24 as stated: requests of one CloudEvent id handled concurrently leave at
\* most two runs of it, and a redelivery that arrives later submits none.
C24_AtMostOneDuplicate ==
    /\ \A i \in DOMAIN kfpRuns :
          Truthy(kfpRuns[i].ce_id) => Cardinality(RunsOfEvent(kfpRuns[i].ce_id)) <= 2
    /\ \A w \in Workers : Redelivery(w) => RunsOfRequest(dRid[w]) = {}

\* C24 as amended: nothing is remembered between requests: every request
\* whose submission goes through adds a run of its own, a concurrent
\* duplicate and a later redelivery alike, so an event has as many runs as
\* deliveries that got through.
C24_OneRunPerRequest ==
    /\ Len(kfpRuns) <= delivered
    /\ \A w \in Workers :
          dLoc[w].run_result = "run" =>
             /\ Cardinality(RunsOfRequest(dRid[w])) = 1
             /\ \A i \in RunsOfRequest(dRid[w]) : kfpRuns[i].ce_id = CeIdOf(w)
    /\ \A i, j \in DOMAIN kfpRuns : kfpRuns[i].request_id = kfpRuns[j].request_id => i = j

\* Two requests of one event in flight together, a run each.
C24_Witness ==
    /\ Answered(1) /\ Answered(2)
    /\ dResp[1].status = 200 /\ dResp[2].status = 200
    /\ dReq[1] = dReq[2] /\ CeIdOf(1) = Str(Evt123)
    /\ dLoc[1].runs_at_receipt = 0 /\ dLoc[2].runs_at_receipt = 0
    /\ Cardinality(RunsOfEvent(Str(Evt123))) = 2
\* A webhook request that has been received and has no response yet.
InFlight == bPc \in {"handling", "posting"}

\* C25 as stated: a webhook request in flight can always move on towards its
\* response, also when the broker never answers the POST: the handler is
\* never left waiting on the broker with nothing that can end the wait.
C25_HandlerNeverBlocked == InFlight => (bPc = "handling" \/ PostReturns)
\* C26 as stated: for every payload the bridge forwards and the dispatcher
\* can extract from, the CloudEvent subject is the object key the dispatcher
\* extracts from the forwarded payload (no subject when it finds none), and
\* the CloudEvent type is the eventName it extracts.
C26_SubjectAndTypeAgree ==
    (Posted /\ DispatcherView(bEvent).out = "ok") =>
        \E v \in {DispatcherView(bEvent)} :
            /\ Str(Header(bEvent, "ce-type")) = v.eventName
            /\ IF "ce-subject" \in DOMAIN bEvent.ce
               THEN Str(Header(bEvent, "ce-subject")) = v.objectKey
               ELSE v.objectKey = Str(UnknownKey)
\* The handler of worker w has extracted a string key, found the pipeline and
\* obtained the experiment.
ReadyToSubmit(w) ==
    /\ Answered(w) /\ Extracted(w) /\ IsStr(dLoc[w].object_key)
    /\ dLoc[w].pipeline_id = "id" /\ dLoc[w].experiment \in {"found", "created"}

\* C27: whatever the event name and the key's extension, a request whose event
\* gives a string key, with the pipeline found and the experiment obtained,
\* makes exactly one run_pipeline call, and unless that call raises exactly
\* one run of the request is on record, for its bucket and key.  No event is
\* skipped: a request is answered 200 only with its run on record.
C27_NoEventFilter ==
    /\ \A w \in Workers :
          (Answered(w) /\ dResp[w].status = 200) =>
              (ReadyToSubmit(w) /\ dLoc[w].run_result = "run")
    /\ \A w \in Workers :
        ReadyToSubmit(w) =>
            /\ dCalls[w].run_pipeline = 1
            /\ dLoc[w].run_result \in {"run", "raise"}
            /\ dLoc[w].run_result = "run" =>
                  /\ dResp[w].status = 200
                  /\ Cardinality(RunsOfRequest(dRid[w])) = 1
                  /\ \A i \in RunsOfRequest(dRid[w]) :
                        /\ kfpRuns[i].pdf_s3_key = dLoc[w].object_key
                        /\ kfpRuns[i].pdf_s3_bucket = dLoc[w].bucket_name

\* The removal of a text file has a run submitted for it.
C27_Witness ==
    /\ ReadyToSubmit(1)
    /\ dLoc[1].eventName = Str(RemovedEvent) /\ dLoc[1].object_key = Str(NotesTxt)
    /\ dResp[1].status = 200
    /\ \E i \in RunsOfRequest(dRid[1]) : kfpRuns[i].pdf_s3_key = Str(NotesTxt)
\* A thread's create_incident has answered 201.
Created(t) == tPc[t] = "done" /\ tResp[t].status = 201 /\ "result" \in tResp[t].keys
NumberOf(t) == tResp[t].result.f["number"].s

\* C28: requests served one at a time: the step that stores a created
\* incident stores it under a number that was no key of incidents_db, leaves
\* every incident that was there as it was, and makes the store one longer.
C28_CreateStoresUnderFreshNumber ==
    [][\A t \in Threads :
          (tPc[t] = "storing" /\ tPc'[t] = "done") =>
              /\ ~HasKey(incidents_db, tLoc[t].number)
              /\ Len(incidents_db') = Len(incidents_db) + 1
              /\ \A i \in DOMAIN incidents_db : incidents_db'[i] = incidents_db[i]
              /\ incidents_db'[Len(incidents_db')] =
                    [key |-> tLoc[t].number, inc |-> tLoc[t].incident]
              /\ tLoc[t].incident.f["number"] = Str(tLoc[t].number)]_vars

\* The second incident created after the five initial ones is INC001007.
C28_Witness ==
    /\ Created(1) /\ NumberOf(1) = Inc1007
    /\ Len(incidents_db) = Len(InitialIncidents) + 2
    /\ KeysOf(incidents_db) = KeysOf(InitialIncidents) \o <<Inc1006, Inc1007>>

\* C29 as stated: every incident in incidents_db whose state is closed or
\* resolved, in any letter case, has closed_at, resolution_notes,
\* resolution_code and resolved_by, none of them empty.
C29_ClosedHasResolution ==
    \A i \in DOMAIN incidents_db :
        \E incident \in {incidents_db[i].inc} :
            ("state" \in DOMAIN incident.f /\ IsStr(incident.f["state"])
               /\ StrLower(incident.f["state"].s) \in ClosedStates) =>
                \A k \in ResolutionFields : ~Unset(incident, k)

\* C30 as stated: two threads whose create_incident have both answered 201
\* hold different numbers, and incidents_db has each one's incident under its
\* number.
C30_ConcurrentCreatesDistinct ==
    \A t, u \in Threads :
        (t # u /\ Created(t) /\ Created(u)) =>
            /\ NumberOf(t) # NumberOf(u)
            /\ HasKey(incidents_db, NumberOf(t)) /\ HasKey(incidents_db, NumberOf(u))
====
